---- MODULE Spec2Model ----
(***************************************************************************)
(* Portfolio valuation engine of the stock portfolio dashboard             *)
(* (src/src/lib/portfolioCalculations.ts).                                 *)
(*                                                                         *)
(* JavaScript numbers are modelled as exact rationals <<n, d>> in lowest   *)
(* terms with d > 0; Math.round is modelled as floor(x + 1/2), which is    *)
(* what ECMAScript specifies.  A Map is modelled as the sequence of its    *)
(* entries in insertion order, which is the order Map.forEach visits.      *)
(***************************************************************************)
EXTENDS Integers, Sequences, FiniteSets, TLC

(***************************************************************************)
(* Numbers                                                                 *)
(***************************************************************************)
Abs(a) == IF a < 0 THEN -a ELSE a

RECURSIVE GCD(_, _)
GCD(a, b) == IF b = 0 THEN a ELSE GCD(b, a % b)

\* the number n/d, in lowest terms with a positive denominator; a zero
\* denominator stands for a value that is not finite: <<1, 0>> is Infinity,
\* <<-1, 0>> is -Infinity and <<0, 0>> is NaN
Num(n, d) ==
    IF d = 0 THEN <<IF n > 0 THEN 1 ELSE IF n < 0 THEN -1 ELSE 0, 0>>
    ELSE LET g == GCD(Abs(n), Abs(d))
             s == IF d < 0 THEN -1 ELSE 1
         IN  <<(s * n) \div g, (s * d) \div g>>

IsFinite(x) == x[2] # 0

Zero == <<0, 1>>
Whole(n) == <<n, 1>>

Plus(x, y)  == Num(x[1] * y[2] + y[1] * x[2], x[2] * y[2])
Minus(x, y) == Num(x[1] * y[2] - y[1] * x[2], x[2] * y[2])
Times(x, y) == Num(x[1] * y[1], x[2] * y[2])
\* x / y; a division by zero gives a value that is not finite
Over(x, y)  == Num(x[1] * y[2], x[2] * y[1])

Less(x, y)   == x[1] * y[2] < y[1] * x[2]
LessEq(x, y) == x[1] * y[2] <= y[1] * x[2]
Positive(x)  == x[1] > 0
Negative(x)  == x[1] < 0

\* Math.round(x): the integer nearest to x, ties towards +Infinity
MathRound(x) == (2 * x[1] + x[2]) \div (2 * x[2])

\* Math.round(x * 100) / 100
RoundCents(x) == IF IsFinite(x) THEN Num(MathRound(Times(x, Whole(100))), 100) ELSE x

(***************************************************************************)
(* Inputs                                                                  *)
(***************************************************************************)
MaxLen == 3

Symbols == {"AAPL", "XYZ"}

\* TradeRecord: date, symbol, quantity, price, transactionType
Trade(d, s, q, p, t) ==
    [date |-> d, symbol |-> s, quantity |-> q, price |-> p, transactionType |-> t]

TradeRecords ==
    {Trade("2024-01-15", "AAPL", Whole(q), Whole(p), "buy") : q \in {1, 2}, p \in {1, 3}}
    \cup
    {Trade("2024-01-15", "AAPL", Whole(1), Whole(1), "sell"),
     Trade("2024-01-15", "AAPL", Whole(2), Whole(3), "sell")}
    \cup
    {Trade("2024-01-15", "XYZ", Whole(1), Whole(1), t) : t \in {"buy", "sell"}}

RECURSIVE SeqsUpTo(_, _)
SeqsUpTo(S, n) ==
    IF n = 0 THEN {<<>>}
    ELSE LET shorter == SeqsUpTo(S, n - 1)
         IN  shorter \cup {Append(l, x) : l \in {k \in shorter : Len(k) = n - 1}, x \in S}

Ledgers == SeqsUpTo(TradeRecords, MaxLen)

\* quotes: nothing, a zero price, half a cent
QuotePrices == {Zero, Num(1, 200)}

\* Map<string, StockPrice>: a function from the symbols that have a quote
PriceMaps ==
    UNION {[D -> {[price |-> p] : p \in QuotePrices}] : D \in SUBSET Symbols}

MapHas(m, key) == key \in DOMAIN m

(***************************************************************************)
(* Map<string, V> as the sequence of its values, each carrying its key in  *)
(* the field symbol, in insertion order                                    *)
(***************************************************************************)
MapIndex(m, key) ==
    IF \E i \in 1..Len(m) : m[i].symbol = key
    THEN CHOOSE i \in 1..Len(m) : m[i].symbol = key
    ELSE 0

\* Map.set: a present key keeps its place, a new key goes last
MapSet(m, value) ==
    IF MapIndex(m, value.symbol) # 0
    THEN [m EXCEPT ![MapIndex(m, value.symbol)] = value]
    ELSE Append(m, value)

MapKeys(m) == {m[i].symbol : i \in 1..Len(m)}

(***************************************************************************)
(* calculateHoldings                                                       *)
(***************************************************************************)
\* holdings.get(trade.symbol) || { quantity: 0, totalCost: 0, trades: [] }
Existing(m, key) ==
    IF MapIndex(m, key) # 0 THEN m[MapIndex(m, key)]
    ELSE [symbol |-> key, quantity |-> Zero, totalCost |-> Zero, trades |-> <<>>]

\* mutant: the guard tests quantity !== 0 instead of quantity > 0
avgCostPerShare_GuardNonZero(existing) ==
    IF existing.quantity # Zero
    THEN Over(existing.totalCost, existing.quantity)
    ELSE Zero

avgCostPerShare(existing) ==
    IF Positive(existing.quantity)
    THEN Over(existing.totalCost, existing.quantity)
    ELSE Zero

\* mutant: the sale takes its proceeds, not its average cost, off the cost
costToReduce_AtSellPrice(existing, trade) == Times(trade.quantity, trade.price)

costToReduce(existing, trade) == Times(trade.quantity, avgCostPerShare(existing))

Buy(existing, trade) ==
    [existing EXCEPT !.quantity  = Plus(@, trade.quantity),
                     !.totalCost = Plus(@, Times(trade.quantity, trade.price)),
                     !.trades    = Append(@, trade)]

\* mutant: a sale takes shares off the position and leaves its cost
Sell_CostKept(existing, trade) ==
    [existing EXCEPT !.quantity  = Minus(@, trade.quantity),
                     !.trades    = Append(@, trade)]

Sell(existing, trade) ==
    [existing EXCEPT !.quantity  = Minus(@, trade.quantity),
                     !.totalCost = Minus(@, costToReduce(existing, trade)),
                     !.trades    = Append(@, trade)]

\* the body of the forEach over the trades: the position after the trade
ApplyTrade(existing, trade) ==
    IF trade.transactionType = "buy" THEN Buy(existing, trade)
    ELSE IF trade.transactionType = "sell" THEN Sell(existing, trade)
    ELSE [existing EXCEPT !.trades = Append(@, trade)]

\* mutant: the warning also fires when the quantity reaches exactly zero
WarnsNegative_AtZero(existing, trade) ==
    /\ trade.transactionType = "sell"
    /\ ~Positive(Minus(existing.quantity, trade.quantity))

\* console.warn fires for this trade
WarnsNegative(existing, trade) ==
    /\ trade.transactionType = "sell"
    /\ Negative(ApplyTrade(existing, trade).quantity)

\* the symbol the warning text names
WarnedSymbol(trade) == trade.symbol

\* the accumulator map and the warnings after the first k trades
RECURSIVE Accumulate(_, _)
Accumulate(tradeHistory, k) ==
    IF k = 0 THEN [holdings |-> <<>>, warnings |-> <<>>]
    ELSE LET before   == Accumulate(tradeHistory, k - 1)
             trade    == tradeHistory[k]
             existing == Existing(before.holdings, trade.symbol)
         IN  [holdings |-> MapSet(before.holdings, ApplyTrade(existing, trade)),
              warnings |-> IF WarnsNegative(existing, trade)
                           THEN Append(before.warnings, WarnedSymbol(trade))
                           ELSE before.warnings]

\* mutant: the filter keeps quantity >= 0
IsHeld_KeepsZero(value) == ~Negative(value.quantity)

\* the filter that builds filteredHoldings
IsHeld(value) == Positive(value.quantity)

FilterHeld(m) == SelectSeq(m, IsHeld)

calculateHoldings(tradeHistory) ==
    FilterHeld(Accumulate(tradeHistory, Len(tradeHistory)).holdings)

consoleWarn(tradeHistory) ==
    Accumulate(tradeHistory, Len(tradeHistory)).warnings

(***************************************************************************)
(* Valuation                                                               *)
(***************************************************************************)
RECURSIVE InvestedUpTo(_, _)
InvestedUpTo(tradeHistory, k) ==
    IF k = 0 THEN Zero
    ELSE LET trade == tradeHistory[k]
             total == InvestedUpTo(tradeHistory, k - 1)
         IN  IF trade.transactionType = "buy"
             THEN Plus(total, Times(trade.quantity, trade.price))
             ELSE total

calculateInvestedValue(tradeHistory) == InvestedUpTo(tradeHistory, Len(tradeHistory))

\* mutant: a holding without a quote is valued at its cost
ValueOf_CostWhenNoQuote(livePrices, holding) ==
    IF holding.symbol \in DOMAIN livePrices
    THEN Times(holding.quantity, livePrices[holding.symbol].price)
    ELSE holding.totalCost

\* a holding's contribution to the total current value
ValueOf(livePrices, holding) ==
    IF MapHas(livePrices, holding.symbol) /\ Positive(holding.quantity)
    THEN Times(holding.quantity, livePrices[holding.symbol].price)
    ELSE Zero

RECURSIVE CurrentUpTo(_, _, _)
CurrentUpTo(livePrices, holdings, k) ==
    IF k = 0 THEN Zero
    ELSE Plus(CurrentUpTo(livePrices, holdings, k - 1), ValueOf(livePrices, holdings[k]))

calculateCurrentValue(livePrices, holdings) ==
    CurrentUpTo(livePrices, holdings, Len(holdings))

\* mutant: the guard tests investedValue !== 0 instead of investedValue > 0
PnLPercentage_GuardNonZero(investedValue, absolute) ==
    IF investedValue # Zero
    THEN Times(Over(absolute, investedValue), Whole(100))
    ELSE Zero

PnLPercentage(investedValue, absolute) ==
    IF Positive(investedValue)
    THEN Times(Over(absolute, investedValue), Whole(100))
    ELSE Zero

calculatePnL(investedValue, currentValue) ==
    LET absolute   == Minus(currentValue, investedValue)
        percentage == PnLPercentage(investedValue, absolute)
    IN  [absolute |-> RoundCents(absolute), percentage |-> RoundCents(percentage)]

\* mutant: the unweighted average, total cost over the number of trades
HoldingAveragePrice_PerTrade(holding) ==
    IF holding.trades # <<>> THEN Over(holding.totalCost, Whole(Len(holding.trades))) ELSE Zero

\* the unrounded locals of the forEach that builds holdingsArray
HoldingAveragePrice(holding) ==
    IF Positive(holding.quantity) THEN Over(holding.totalCost, holding.quantity) ELSE Zero

HoldingCurrentValue(livePrices, holding) ==
    IF MapHas(livePrices, holding.symbol)
    THEN Times(holding.quantity, livePrices[holding.symbol].price)
    ELSE Zero

ToHolding(livePrices, holding) ==
    LET currentValue  == HoldingCurrentValue(livePrices, holding)
        investedValue == holding.totalCost
        stockPnL      == calculatePnL(investedValue, currentValue)
    IN  [symbol        |-> holding.symbol,
         quantity      |-> holding.quantity,
         averagePrice  |-> RoundCents(HoldingAveragePrice(holding)),
         investedValue |-> RoundCents(investedValue),
         currentValue  |-> RoundCents(currentValue),
         pnl           |-> stockPnL.absolute,
         pnlPercent    |-> stockPnL.percentage]

\* mutant: equal values compare as "before", which reverses ties
ComesBefore_TiesReversed(a, b) == LessEq(b.currentValue, a.currentValue)

\* the comparator (a, b) => b.currentValue - a.currentValue is negative
ComesBefore(a, b) == Less(b.currentValue, a.currentValue)

\* Array.prototype.sort is stable: x goes before the first element it must
\* precede and after every element it compares equal to
InsertSorted(sorted, x) ==
    LET firstAfter ==
            IF \E i \in 1..Len(sorted) : ComesBefore(x, sorted[i])
            THEN CHOOSE i \in 1..Len(sorted) :
                    /\ ComesBefore(x, sorted[i])
                    /\ \A j \in 1..(i - 1) : ~ComesBefore(x, sorted[j])
            ELSE Len(sorted) + 1
    IN  SubSeq(sorted, 1, firstAfter - 1) \o <<x>> \o SubSeq(sorted, firstAfter, Len(sorted))

RECURSIVE SortUpTo(_, _)
SortUpTo(array, k) ==
    IF k = 0 THEN <<>> ELSE InsertSorted(SortUpTo(array, k - 1), array[k])

SortHoldings(array) == SortUpTo(array, Len(array))

calculatePortfolioSummary(tradeHistory, livePrices) ==
    LET holdings          == calculateHoldings(tradeHistory)
        totalInvested     == calculateInvestedValue(tradeHistory)
        totalCurrentValue == calculateCurrentValue(livePrices, holdings)
        pnl               == calculatePnL(totalInvested, totalCurrentValue)
        holdingsArray     == [i \in 1..Len(holdings) |-> ToHolding(livePrices, holdings[i])]
    IN  [totalInvested     |-> RoundCents(totalInvested),
         totalCurrentValue |-> RoundCents(totalCurrentValue),
         totalPnL          |-> pnl.absolute,
         totalPnLPercent   |-> pnl.percentage,
         holdings          |-> SortHoldings(holdingsArray)]

(***************************************************************************)
(* calculatePortfolioGrowthOverTime                                        *)
(***************************************************************************)
\* the dates of the ledgers, as YYYY-MM-DD strings in calendar order
Dates == <<"2024-01-15", "2024-01-20", "2024-02-01">>

\* new Date(date).getTime(), up to a monotone change of scale
DateTime(date) == CHOOSE i \in 1..Len(Dates) : Dates[i] = date

\* the comparator of the trade sort is negative
EarlierTrade(a, b) == DateTime(a.date) < DateTime(b.date)

\* the stable sort of the copy [...tradeHistory]
InsertByDate(sorted, x) ==
    LET firstAfter ==
            IF \E i \in 1..Len(sorted) : EarlierTrade(x, sorted[i])
            THEN CHOOSE i \in 1..Len(sorted) :
                    /\ EarlierTrade(x, sorted[i])
                    /\ \A j \in 1..(i - 1) : ~EarlierTrade(x, sorted[j])
            ELSE Len(sorted) + 1
    IN  SubSeq(sorted, 1, firstAfter - 1) \o <<x>> \o SubSeq(sorted, firstAfter, Len(sorted))

RECURSIVE SortTradesUpTo(_, _)
SortTradesUpTo(trades, k) ==
    IF k = 0 THEN <<>> ELSE InsertByDate(SortTradesUpTo(trades, k - 1), trades[k])

sortedTrades(tradeHistory) == SortTradesUpTo(tradeHistory, Len(tradeHistory))

\* mutant: the sort is done in place, on the caller's array
LedgerAfterGrowth_SortedInPlace(tradeHistory) == sortedTrades(tradeHistory)

\* the caller's array after the call: the sort works on a copy
LedgerAfterGrowth(tradeHistory) == tradeHistory

\* mutant: one key per trade
DateKeysUpTo_PerTrade(trades, k) == [i \in 1..k |-> trades[i].date]

\* the keys of tradesByDate after the first k trades, in insertion order
RECURSIVE DateKeysUpTo(_, _)
DateKeysUpTo(trades, k) ==
    IF k = 0 THEN <<>>
    ELSE LET keys == DateKeysUpTo(trades, k - 1)
         IN  IF \E i \in 1..Len(keys) : keys[i] = trades[k].date
             THEN keys
             ELSE Append(keys, trades[k].date)

\* tradesByDate.get(date): the trades of the date, in sorted order
dayTrades(trades, date) == SelectSeq(trades, LAMBDA t : t.date = date)

\* the default string comparison of Array.prototype.sort puts a before b;
\* on YYYY-MM-DD strings it is the calendar order
StringBefore(a, b) == DateTime(a) < DateTime(b)

InsertDate(sorted, x) ==
    LET firstAfter ==
            IF \E i \in 1..Len(sorted) : StringBefore(x, sorted[i])
            THEN CHOOSE i \in 1..Len(sorted) :
                    /\ StringBefore(x, sorted[i])
                    /\ \A j \in 1..(i - 1) : ~StringBefore(x, sorted[j])
            ELSE Len(sorted) + 1
    IN  SubSeq(sorted, 1, firstAfter - 1) \o <<x>> \o SubSeq(sorted, firstAfter, Len(sorted))

RECURSIVE SortDatesUpTo(_, _)
SortDatesUpTo(keys, k) ==
    IF k = 0 THEN <<>> ELSE InsertDate(SortDatesUpTo(keys, k - 1), keys[k])

\* Array.from(tradesByDate.keys()).sort()
GrowthDates(trades) ==
    LET keys == DateKeysUpTo(trades, Len(trades))
    IN  SortDatesUpTo(keys, Len(keys))

\* holdings.get(trade.symbol) || { quantity: 0, totalCost: 0 }
RunningExisting(running, key) ==
    IF MapIndex(running, key) # 0 THEN running[MapIndex(running, key)]
    ELSE [symbol |-> key, quantity |-> Zero, totalCost |-> Zero]

\* the position after the trade; every trade that is not a buy is a sell
RunningApply(existing, trade) ==
    IF trade.transactionType = "buy"
    THEN [existing EXCEPT !.quantity  = Plus(@, trade.quantity),
                          !.totalCost = Plus(@, Times(trade.quantity, trade.price))]
    ELSE [existing EXCEPT !.quantity  = Minus(@, trade.quantity),
                          !.totalCost = Minus(@, Times(trade.quantity,
                                                       IF Positive(existing.quantity)
                                                       THEN Over(existing.totalCost, existing.quantity)
                                                       ELSE Zero))]

\* Map.delete
MapDelete(m, key) == SelectSeq(m, LAMBDA e : e.symbol # key)

\* mutant: the position is kept in the map whatever its quantity
RunningStore_KeepsAll(running, existing) == MapSet(running, existing)

\* holdings.set when the quantity is > 0, holdings.delete otherwise
RunningStore(running, existing) ==
    IF Positive(existing.quantity)
    THEN MapSet(running, existing)
    ELSE MapDelete(running, existing.symbol)

\* the running map after the first k trades of the day
RECURSIVE RunningAfterDay(_, _, _)
RunningAfterDay(running, trades, k) ==
    IF k = 0 THEN running
    ELSE LET before == RunningAfterDay(running, trades, k - 1)
             trade  == trades[k]
         IN  RunningStore(before, RunningApply(RunningExisting(before, trade.symbol), trade))

\* mutant: a quoted position is valued at what was paid for it
RunningValueOf_AtTradePrices(livePrices, holding) ==
    IF MapHas(livePrices, holding.symbol) /\ Positive(holding.quantity)
    THEN holding.totalCost
    ELSE Zero

\* mutant: a position without a quote is valued at its cost
RunningValueOf_CostWhenNoQuote(livePrices, holding) ==
    IF holding.symbol \in DOMAIN livePrices
    THEN Times(holding.quantity, livePrices[holding.symbol].price)
    ELSE holding.totalCost

\* a position's contribution to the value of the day
RunningValueOf(livePrices, holding) ==
    IF MapHas(livePrices, holding.symbol) /\ Positive(holding.quantity)
    THEN Times(holding.quantity, livePrices[holding.symbol].price)
    ELSE Zero

RECURSIVE PortfolioValueUpTo(_, _, _)
PortfolioValueUpTo(livePrices, running, k) ==
    IF k = 0 THEN Zero
    ELSE Plus(PortfolioValueUpTo(livePrices, running, k - 1),
              RunningValueOf(livePrices, running[k]))

portfolioValue(livePrices, running) == PortfolioValueUpTo(livePrices, running, Len(running))

\* the running map and the growth data after the first k dates
RECURSIVE GrowthUpTo(_, _, _, _)
GrowthUpTo(trades, dates, livePrices, k) ==
    IF k = 0 THEN [holdings |-> <<>>, growthData |-> <<>>]
    ELSE LET before  == GrowthUpTo(trades, dates, livePrices, k - 1)
             today   == dayTrades(trades, dates[k])
             running == RunningAfterDay(before.holdings, today, Len(today))
         IN  [holdings   |-> running,
              growthData |-> Append(before.growthData,
                                    [date  |-> dates[k],
                                     value |-> RoundCents(portfolioValue(livePrices, running))])]

\* mutant: an empty ledger gives one point of value 0
calculatePortfolioGrowthOverTime_PointForEmpty(tradeHistory, livePrices) ==
    IF Len(tradeHistory) = 0 THEN <<[date |-> Dates[1], value |-> Zero]>>
    ELSE LET trades == sortedTrades(tradeHistory)
             dates  == GrowthDates(trades)
         IN  GrowthUpTo(trades, dates, livePrices, Len(dates)).growthData

calculatePortfolioGrowthOverTime(tradeHistory, livePrices) ==
    IF Len(tradeHistory) = 0 THEN <<>>
    ELSE LET trades == sortedTrades(tradeHistory)
             dates  == GrowthDates(trades)
         IN  GrowthUpTo(trades, dates, livePrices, Len(dates)).growthData

(***************************************************************************)
(* calculateSectorAllocation                                               *)
(***************************************************************************)
\* the keys of sectorMap
SectorSymbols ==
    {"AAPL", "GOOGL", "MSFT", "AMZN", "TSLA", "META", "NVDA", "NFLX",
     "JPM", "JNJ", "PG", "V", "WMT", "DIS", "MA"}

sectorMap(symbol) ==
    CASE symbol \in {"AAPL", "GOOGL", "MSFT", "META", "NVDA"} -> "Technology"
      [] symbol \in {"AMZN", "TSLA"} -> "Consumer Discretionary"
      [] symbol \in {"NFLX", "DIS"} -> "Communication Services"
      [] symbol \in {"JPM", "V", "MA"} -> "Financial Services"
      [] symbol \in {"JNJ"} -> "Healthcare"
      [] symbol \in {"PG", "WMT"} -> "Consumer Staples"

\* mutant: a symbol missing from the table is filed under its own name
SectorOf_OwnName(symbol) ==
    IF symbol \in SectorSymbols THEN sectorMap(symbol) ELSE symbol

\* sectorMap[holding.symbol] || 'Other'
SectorOf(symbol) ==
    IF symbol \in SectorSymbols THEN sectorMap(symbol) ELSE "Other"

SectorIndex(totals, sector) ==
    IF \E i \in 1..Len(totals) : totals[i].name = sector
    THEN CHOOSE i \in 1..Len(totals) : totals[i].name = sector
    ELSE 0

\* sectorTotals after the first k holdings, in insertion order
RECURSIVE SectorTotalsUpTo(_, _)
SectorTotalsUpTo(holdings, k) ==
    IF k = 0 THEN <<>>
    ELSE LET totals == SectorTotalsUpTo(holdings, k - 1)
             sector == SectorOf(holdings[k].symbol)
             at     == SectorIndex(totals, sector)
         IN  IF at # 0
             THEN [totals EXCEPT ![at].value = Plus(@, holdings[k].currentValue)]
             ELSE Append(totals, [name |-> sector, value |-> holdings[k].currentValue])

RECURSIVE TotalValueUpTo(_, _)
TotalValueUpTo(holdings, k) ==
    IF k = 0 THEN Zero
    ELSE Plus(TotalValueUpTo(holdings, k - 1), holdings[k].currentValue)

\* mutant: the division is not guarded
SectorPercentage_Unguarded(value, totalValue) ==
    Times(Over(value, totalValue), Whole(100))

SectorPercentage(value, totalValue) ==
    IF Positive(totalValue) THEN Times(Over(value, totalValue), Whole(100)) ELSE Zero

\* the comparator (a, b) => b.value - a.value is negative
LargerSector(a, b) == Less(b.value, a.value)

InsertSector(sorted, x) ==
    LET firstAfter ==
            IF \E i \in 1..Len(sorted) : LargerSector(x, sorted[i])
            THEN CHOOSE i \in 1..Len(sorted) :
                    /\ LargerSector(x, sorted[i])
                    /\ \A j \in 1..(i - 1) : ~LargerSector(x, sorted[j])
            ELSE Len(sorted) + 1
    IN  SubSeq(sorted, 1, firstAfter - 1) \o <<x>> \o SubSeq(sorted, firstAfter, Len(sorted))

RECURSIVE SortSectorsUpTo(_, _)
SortSectorsUpTo(array, k) ==
    IF k = 0 THEN <<>> ELSE InsertSector(SortSectorsUpTo(array, k - 1), array[k])

calculateSectorAllocation(holdings) ==
    LET sectorTotals == SectorTotalsUpTo(holdings, Len(holdings))
        totalValue   == TotalValueUpTo(holdings, Len(holdings))
        sectorData   == [i \in 1..Len(sectorTotals) |->
                            [name       |-> sectorTotals[i].name,
                             value      |-> RoundCents(sectorTotals[i].value),
                             percentage |-> RoundCents(SectorPercentage(sectorTotals[i].value,
                                                                         totalValue))]]
    IN  SortSectorsUpTo(sectorData, Len(sectorData))

(***************************************************************************)
(* The state machine: a ledger and a price map, and the core operations    *)
(* applied to them                                                         *)
(***************************************************************************)
VARIABLES tradeHistory, livePrices, returned, holdings, warned, portfolioSummary,
          growthData, sectorData,
          \* the CSV text given to parseCSVText and what the call gave
          csvText, parsed,
          \* the fields of a WebSocketManager
          ws, reconnectAttempts, isConnecting,
          subscribers, errorSubscribers, statusSubscribers,
          \* the WebSocket objects created so far and the pending setTimeout calls
          sockets, timers,
          \* the unsubscribe functions handed out, the subscriptions that have
          \* ended, whether disconnect() was the client's last word, and the
          \* last operation with the callbacks it invoked
          unsubscribeFns, released, disconnected, last

coreVars == <<tradeHistory, livePrices, returned, holdings, warned, portfolioSummary,
              growthData, sectorData>>

csvVars == <<csvText, parsed>>

managerVars == <<ws, reconnectAttempts, isConnecting,
                 subscribers, errorSubscribers, statusSubscribers,
                 sockets, timers, unsubscribeFns, released, disconnected, last>>

vars == <<coreVars, csvVars, managerVars>>

\* the fields of a manager as the constructor leaves them (lines 257-266)
Constructed ==
    /\ ws = 0
    /\ reconnectAttempts = 0
    /\ isConnecting = FALSE
    /\ subscribers = <<>>
    /\ errorSubscribers = <<>>
    /\ statusSubscribers = <<>>
    /\ sockets = <<>>
    /\ timers = <<>>
    /\ unsubscribeFns = {}
    /\ released = {}
    /\ disconnected = FALSE
    /\ last = [op |-> "none", wasClean |-> FALSE, outcome |-> "none", message |-> "none",
               scheduled |-> 0, calls |-> <<>>]

\* no file has been given to the parser
NothingParsed ==
    /\ csvText = <<>>
    /\ parsed = [called |-> FALSE, ok |-> TRUE, records |-> <<>>, row |-> 0,
                 message |-> "none"]

NoSummary ==
    [totalInvested |-> Zero, totalCurrentValue |-> Zero, totalPnL |-> Zero,
     totalPnLPercent |-> Zero, holdings |-> <<>>]

NoPrices == <<>>

\* nothing has been computed yet
NothingReturned ==
    /\ Constructed
    /\ NothingParsed
    /\ returned = "nothing"
    /\ holdings = <<>>
    /\ warned = <<>>
    /\ portfolioSummary = NoSummary
    /\ growthData = <<>>
    /\ sectorData = <<>>

\* a ledger is given; nothing has been computed from it yet
Init ==
    /\ tradeHistory \in Ledgers
    /\ livePrices = NoPrices
    /\ NothingReturned

\* a call of calculateHoldings(tradeHistory)
CallCalculateHoldings ==
    /\ returned = "nothing"
    /\ holdings' = calculateHoldings(tradeHistory)
    /\ warned' = consoleWarn(tradeHistory)
    /\ returned' = "calculateHoldings"
    /\ UNCHANGED <<tradeHistory, livePrices, portfolioSummary, growthData, sectorData>>
    /\ UNCHANGED <<csvVars, managerVars>>

\* calculatePortfolioSummary(tradeHistory, prices), which calls
\* calculateHoldings itself
SummaryCall(prices) ==
    /\ returned = "nothing"
    /\ livePrices' = prices
    /\ portfolioSummary' = calculatePortfolioSummary(tradeHistory, prices)
    /\ holdings' = calculateHoldings(tradeHistory)
    /\ warned' = consoleWarn(tradeHistory)
    /\ returned' = "calculatePortfolioSummary"
    /\ UNCHANGED <<tradeHistory, growthData, sectorData>>
    /\ UNCHANGED <<csvVars, managerVars>>

\* a call of calculatePortfolioSummary with some price map
CallCalculatePortfolioSummary == \E prices \in PriceMaps : SummaryCall(prices)

Next ==
    \/ CallCalculateHoldings
    \/ CallCalculatePortfolioSummary

Spec == Init /\ [][Next]_vars

Summarized == returned = "calculatePortfolioSummary"
Aggregated == returned \in {"calculateHoldings", "calculatePortfolioSummary"}

TypeOK ==
    /\ tradeHistory \in Ledgers
    /\ livePrices \in PriceMaps
    /\ returned \in {"nothing", "calculateHoldings", "calculatePortfolioSummary"}

(***************************************************************************)
(* The four core operations on ledgers with several dates and on a given   *)
(* price map                                                               *)
(***************************************************************************)
\* the worked example of the specification
ExampleLedger ==
    <<Trade("2024-01-15", "AAPL", Whole(100), Num(301, 2), "buy"),
      Trade("2024-02-01", "AAPL", Whole(50), Whole(155), "sell")>>

ExamplePrices == [s \in {"AAPL"} |-> [price |-> Whole(160)]]

DatedTradeRecords ==
    {Trade("2024-01-15", "AAPL", Whole(1), Whole(3), "buy"),
     Trade("2024-01-20", "AAPL", Whole(2), Whole(3), "sell"),
     Trade("2024-01-20", "AAPL", Whole(2), Whole(1), "buy"),
     Trade("2024-02-01", "AAPL", Whole(1), Whole(1), "sell"),
     Trade("2024-02-01", "XYZ", Whole(1), Whole(1), "buy"),
     Trade("2024-01-20", "XYZ", Whole(1), Whole(1), "sell")}

DatedLedgers == SeqsUpTo(DatedTradeRecords, MaxLen) \cup {ExampleLedger}

CorePriceMaps == PriceMaps \cup {ExamplePrices}

InitCore ==
    /\ tradeHistory \in DatedLedgers
    /\ livePrices \in CorePriceMaps
    /\ NothingReturned

\* a call of calculatePortfolioSummary(tradeHistory, livePrices)
CallSummaryOnPrices == SummaryCall(livePrices)

\* a call of calculatePortfolioGrowthOverTime(tradeHistory, livePrices)
CallCalculatePortfolioGrowthOverTime ==
    /\ returned = "nothing"
    /\ growthData' = calculatePortfolioGrowthOverTime(tradeHistory, livePrices)
    /\ tradeHistory' = LedgerAfterGrowth(tradeHistory)
    /\ returned' = "calculatePortfolioGrowthOverTime"
    /\ UNCHANGED <<livePrices, holdings, warned, portfolioSummary, sectorData>>
    /\ UNCHANGED <<csvVars, managerVars>>

\* a call of calculateSectorAllocation on the holdings of the summary
CallCalculateSectorAllocation ==
    /\ returned = "calculatePortfolioSummary"
    /\ sectorData' = calculateSectorAllocation(portfolioSummary.holdings)
    /\ returned' = "calculateSectorAllocation"
    /\ UNCHANGED <<tradeHistory, livePrices, holdings, warned, portfolioSummary, growthData>>
    /\ UNCHANGED <<csvVars, managerVars>>

NextCore ==
    \/ CallCalculateHoldings
    \/ CallSummaryOnPrices
    \/ CallCalculatePortfolioGrowthOverTime
    \/ CallCalculateSectorAllocation

SpecCore == InitCore /\ [][NextCore]_vars

GrowthReturned == returned = "calculatePortfolioGrowthOverTime"
Allocated == returned = "calculateSectorAllocation"

(***************************************************************************)
(* calculateSectorAllocation on lists of holdings                          *)
(***************************************************************************)
MaxHoldings == 3

\* three symbols of the table, two of one category, and two symbols that are
\* not in it
AllocationSymbols == {"AAPL", "MSFT", "JPM", "XYZ", "ZZZ"}

\* current values of holdings, in whole cents
CurrentValues == {Zero, Whole(10), Whole(20), Whole(8000)}

\* the fields of a Holding that calculateSectorAllocation reads
HoldingOf(symbol, currentValue) == [symbol |-> symbol, currentValue |-> currentValue]

\* lists of at most MaxHoldings holdings, one holding per symbol
HoldingLists ==
    {h \in SeqsUpTo({HoldingOf(sym, v) : sym \in AllocationSymbols, v \in CurrentValues},
                    MaxHoldings) :
        \A i, j \in 1..Len(h) : i # j => h[i].symbol # h[j].symbol}

\* a summary has been computed; its holdings are some list
InitAllocation ==
    /\ Constructed
    /\ NothingParsed
    /\ tradeHistory = <<>>
    /\ livePrices = NoPrices
    /\ returned = "calculatePortfolioSummary"
    /\ holdings = <<>>
    /\ warned = <<>>
    /\ portfolioSummary \in
          {[NoSummary EXCEPT !.holdings = h,
                             !.totalCurrentValue = TotalValueUpTo(h, Len(h))] :
              h \in HoldingLists}
    /\ growthData = <<>>
    /\ sectorData = <<>>

NextAllocation == CallCalculateSectorAllocation

SpecAllocation == InitAllocation /\ [][NextAllocation]_vars

(***************************************************************************)
(* Reference quantities, computed from the ledger alone                    *)
(***************************************************************************)
RECURSIVE SumSeq(_)
SumSeq(numbers) ==
    IF numbers = <<>> THEN Zero
    ELSE Plus(SumSeq(SubSeq(numbers, 1, Len(numbers) - 1)), numbers[Len(numbers)])

\* the sum of f(trade) over the trades of the first k that satisfy keep
SumOver(ledger, k, keep(_), f(_)) ==
    LET kept == SelectSeq(SubSeq(ledger, 1, k), keep)
    IN  SumSeq([i \in 1..Len(kept) |-> f(kept[i])])

IsBuyOf(sym, trade)  == trade.symbol = sym /\ trade.transactionType = "buy"
IsSellOf(sym, trade) == trade.symbol = sym /\ trade.transactionType = "sell"
QuantityOf(trade) == trade.quantity
AmountOf(trade)   == Times(trade.quantity, trade.price)

\* shares bought minus shares sold among the first k trades
NetQuantity(ledger, k, sym) ==
    Minus(SumOver(ledger, k, LAMBDA t : IsBuyOf(sym, t), QuantityOf),
          SumOver(ledger, k, LAMBDA t : IsSellOf(sym, t), QuantityOf))

HasBuy(ledger, sym)  == \E k \in 1..Len(ledger) : IsBuyOf(sym, ledger[k])
HasSell(ledger, sym) == \E k \in 1..Len(ledger) : IsSellOf(sym, ledger[k])

\* the position of sym in the accumulator after the first k trades
PositionAfter(ledger, k, sym) == Existing(Accumulate(ledger, k).holdings, sym)

\* the trades of sym among the first k, in ledger order
TradesOf(ledger, k, sym) == SelectSeq(SubSeq(ledger, 1, k), LAMBDA t : t.symbol = sym)

(***************************************************************************)
(* C1                                                                      *)
(***************************************************************************)
\* what the k-th trade does to its symbol's position when a sell takes the
\* average cost avg(Q, C)
StepIs(ledger, k, avg(_, _)) ==
    LET trade  == ledger[k]
        before == PositionAfter(ledger, k - 1, trade.symbol)
        after  == PositionAfter(ledger, k, trade.symbol)
        Q      == before.quantity
        C      == before.totalCost
    IN  /\ after.trades = TradesOf(ledger, k, trade.symbol)
        /\ trade.transactionType = "buy" =>
              /\ after.quantity  = Plus(Q, trade.quantity)
              /\ after.totalCost = Plus(C, Times(trade.quantity, trade.price))
        /\ trade.transactionType = "sell" =>
              /\ after.quantity  = Minus(Q, trade.quantity)
              /\ after.totalCost = Minus(C, Times(trade.quantity, avg(Q, C)))

AvgZeroOnlyAtZero(Q, C)   == IF Q = Zero THEN Zero ELSE Over(C, Q)
AvgZeroUnlessHeld(Q, C)   == IF Positive(Q) THEN Over(C, Q) ELSE Zero

\* C1 as claimed: trades are applied in ledger order; a buy of q at p adds q
\* to quantity and q * p to costBasis; a sell of q sets costBasis to
\* C - q * (C / Q) and quantity to Q - q, the average cost being 0 only when
\* Q is 0.
C1_AsClaimed ==
    Aggregated =>
        \A k \in 1..Len(tradeHistory) : StepIs(tradeHistory, k, AvgZeroOnlyAtZero)

\* C1 amended: the same, with the average cost per share taken as 0 whenever
\* the pre-sell quantity Q is not positive (Q = 0 or Q < 0 after an oversell).
C1_SellBuyAccounting ==
    Aggregated =>
        \A k \in 1..Len(tradeHistory) : StepIs(tradeHistory, k, AvgZeroUnlessHeld)

\* a sell was applied to an oversold position that carries a cost basis, and
\* a sell to a held one
C1_Witness ==
    /\ Aggregated
    /\ \E k \in 1..Len(tradeHistory) :
          /\ tradeHistory[k].transactionType = "sell"
          /\ Negative(PositionAfter(tradeHistory, k - 1, tradeHistory[k].symbol).quantity)
          /\ PositionAfter(tradeHistory, k - 1, tradeHistory[k].symbol).totalCost # Zero
    /\ \E k \in 1..Len(tradeHistory) :
          /\ tradeHistory[k].transactionType = "sell"
          /\ Positive(PositionAfter(tradeHistory, k - 1, tradeHistory[k].symbol).quantity)

(***************************************************************************)
(* C2                                                                      *)
(***************************************************************************)
\* sum of quantity * price over sum of quantity, for a symbol with a buy
WeightedMean(ledger, sym) ==
    Over(SumOver(ledger, Len(ledger), LAMBDA t : IsBuyOf(sym, t), AmountOf),
         SumOver(ledger, Len(ledger), LAMBDA t : IsBuyOf(sym, t), QuantityOf))

OnlyBought(ledger, sym) == HasBuy(ledger, sym) /\ ~HasSell(ledger, sym)

\* C2 as claimed: for a symbol with only buy trades the reported averagePrice
\* equals the quantity-weighted mean of its trade prices.
C2_AsClaimed ==
    Summarized =>
        \A i \in 1..Len(portfolioSummary.holdings) :
            LET h == portfolioSummary.holdings[i]
            IN  OnlyBought(tradeHistory, h.symbol) =>
                    h.averagePrice = WeightedMean(tradeHistory, h.symbol)

\* C2 amended: for a symbol with only buy trades the reported averagePrice
\* equals the quantity-weighted mean of its trade prices rounded to cents.
C2_AveragePriceIsRoundedMean ==
    Summarized =>
        /\ \A sym \in Symbols :
              OnlyBought(tradeHistory, sym) =>
                  \E i \in 1..Len(portfolioSummary.holdings) :
                      portfolioSummary.holdings[i].symbol = sym
        /\ \A i \in 1..Len(portfolioSummary.holdings) :
              LET h == portfolioSummary.holdings[i]
              IN  OnlyBought(tradeHistory, h.symbol) =>
                      h.averagePrice = RoundCents(WeightedMean(tradeHistory, h.symbol))

\* a symbol bought at two prices whose mean is not a whole number of cents
C2_Witness ==
    /\ Summarized
    /\ \E i \in 1..Len(portfolioSummary.holdings) :
          LET h == portfolioSummary.holdings[i]
          IN  /\ OnlyBought(tradeHistory, h.symbol)
              /\ h.averagePrice # WeightedMean(tradeHistory, h.symbol)
              /\ \E j, k \in 1..Len(tradeHistory) :
                    /\ tradeHistory[j].symbol = h.symbol
                    /\ tradeHistory[k].symbol = h.symbol
                    /\ tradeHistory[j].price # tradeHistory[k].price

(***************************************************************************)
(* C3                                                                      *)
(***************************************************************************)
SummarySymbols == {portfolioSummary.holdings[i].symbol : i \in 1..Len(portfolioSummary.holdings)}

FinalQuantity(sym) == NetQuantity(tradeHistory, Len(tradeHistory), sym)

\* C3: a symbol is in the map returned by calculateHoldings, and in
\* PortfolioSummary.holdings, if and only if its final accumulated quantity
\* is > 0; a symbol whose sells total exactly its buys is absent.
C3_HeldIffPositive ==
    /\ Aggregated =>
          \A sym \in Symbols : sym \in MapKeys(holdings) <=> Positive(FinalQuantity(sym))
    /\ Summarized =>
          \A sym \in Symbols : sym \in SummarySymbols <=> Positive(FinalQuantity(sym))

\* one symbol was bought and sold in full and is absent, another is held
C3_Witness ==
    /\ Summarized
    /\ \E sym \in Symbols :
          /\ HasBuy(tradeHistory, sym)
          /\ HasSell(tradeHistory, sym)
          /\ FinalQuantity(sym) = Zero
          /\ sym \notin MapKeys(holdings)
          /\ sym \notin SummarySymbols
    /\ \E sym \in Symbols : sym \in MapKeys(holdings) /\ sym \in SummarySymbols

(***************************************************************************)
(* C4                                                                      *)
(***************************************************************************)
\* the k-th trade is a sell that leaves its symbol's running quantity negative
LeavesNegative(ledger, k) ==
    /\ ledger[k].transactionType = "sell"
    /\ Negative(NetQuantity(ledger, k, ledger[k].symbol))

\* the symbols of those sells, in ledger order
RECURSIVE ExpectedWarnings(_, _)
ExpectedWarnings(ledger, k) ==
    IF k = 0 THEN <<>>
    ELSE IF LeavesNegative(ledger, k)
         THEN Append(ExpectedWarnings(ledger, k - 1), ledger[k].symbol)
         ELSE ExpectedWarnings(ledger, k - 1)

\* C4: calculateHoldings returns also when a sell exceeds the quantity held;
\* the running quantity goes negative, one warning naming that trade's
\* symbol is emitted per such sell and none otherwise, and a symbol whose
\* quantity is <= 0 at the end of the ledger is not in the holdings view.
C4_OversellWarns ==
    Aggregated =>
        /\ warned = ExpectedWarnings(tradeHistory, Len(tradeHistory))
        /\ \A k \in 1..Len(tradeHistory) :
              LET trade == tradeHistory[k]
                  Q     == PositionAfter(tradeHistory, k - 1, trade.symbol).quantity
              IN  (trade.transactionType = "sell" /\ Less(Q, trade.quantity)) =>
                      /\ Negative(PositionAfter(tradeHistory, k, trade.symbol).quantity)
                      /\ LeavesNegative(tradeHistory, k)
        /\ \A sym \in Symbols :
              ~Positive(FinalQuantity(sym)) => sym \notin MapKeys(holdings)
        /\ (\A k \in 1..Len(tradeHistory) : ~LeavesNegative(tradeHistory, k)) => warned = <<>>

\* an oversell warned about its symbol and the symbol is not held, while a
\* sell of the whole position of the other symbol did not warn
C4_Witness ==
    /\ Aggregated
    /\ \E sym, other \in Symbols :
          /\ sym # other
          /\ warned = <<sym>>
          /\ Negative(FinalQuantity(sym))
          /\ sym \notin MapKeys(holdings)
          /\ HasSell(tradeHistory, other)
          /\ FinalQuantity(other) = Zero

(***************************************************************************)
(* C5                                                                      *)
(***************************************************************************)
\* C5 as claimed: every symbol in the holdings view that has at least one
\* buy trade has investedValue (cost basis) > 0, oversells included.
C5_AsClaimed ==
    Summarized =>
        /\ \A i \in 1..Len(holdings) :
              HasBuy(tradeHistory, holdings[i].symbol) => Positive(holdings[i].totalCost)
        /\ \A i \in 1..Len(portfolioSummary.holdings) :
              HasBuy(tradeHistory, portfolioSummary.holdings[i].symbol) =>
                  Positive(portfolioSummary.holdings[i].investedValue)

(***************************************************************************)
(* C6                                                                      *)
(***************************************************************************)
\* the cost basis of the held positions
HeldCost == SumSeq([i \in 1..Len(holdings) |-> holdings[i].totalCost])

\* C6 as claimed: totalInvested is the sum over the holdings of the summary
\* of their unrounded investedValue, rounded once to cents.
C6_AsClaimed ==
    Summarized => portfolioSummary.totalInvested = RoundCents(HeldCost)

(***************************************************************************)
(* C7                                                                      *)
(***************************************************************************)
SumOfCurrentValues ==
    SumSeq([i \in 1..Len(portfolioSummary.holdings) |-> portfolioSummary.holdings[i].currentValue])

Distance(x, y) == IF Less(x, y) THEN Minus(y, x) ELSE Minus(x, y)

Cent == Num(1, 100)

\* the exact value of the quoted holdings
QuotedValue ==
    LET quoted == SelectSeq(holdings, LAMBDA h : h.symbol \in DOMAIN livePrices)
    IN  SumSeq([i \in 1..Len(quoted) |->
                   Times(quoted[i].quantity, livePrices[quoted[i].symbol].price)])

PositionOf(h) == holdings[MapIndex(holdings, h.symbol)]

ExactCurrentValue(h) ==
    IF h.symbol \in DOMAIN livePrices
    THEN Times(h.quantity, livePrices[h.symbol].price)
    ELSE Zero

WithZeroQuote(prices, sym) ==
    [s \in DOMAIN prices \cup {sym} |-> IF s = sym THEN [price |-> Zero] ELSE prices[s]]

\* C9 as claimed: for a held symbol without a quote, the summary differs
\* from the summary computed with the price map extended by a quote of
\* price 0 for that symbol.
C9_AsClaimed ==
    Summarized =>
        \A sym \in SummarySymbols \ DOMAIN livePrices :
            portfolioSummary #
                calculatePortfolioSummary(tradeHistory, WithZeroQuote(livePrices, sym))

(***************************************************************************)
(* C10                                                                     *)
(***************************************************************************)
\* the place of the first trade of sym in the ledger
FirstSeen(ledger, sym) ==
    CHOOSE k \in 1..Len(ledger) :
        /\ ledger[k].symbol = sym
        /\ \A j \in 1..(k - 1) : ledger[j].symbol # sym

\* C10: PortfolioSummary.holdings is ordered by non-increasing currentValue,
\* and holdings with equal currentValue are in the order in which their
\* symbols first occur in the ledger.
C10_SortedStable ==
    Summarized =>
        \A i, j \in 1..Len(portfolioSummary.holdings) :
            LET a == portfolioSummary.holdings[i]
                b == portfolioSummary.holdings[j]
            IN  i < j =>
                    /\ LessEq(b.currentValue, a.currentValue)
                    /\ a.currentValue = b.currentValue =>
                          FirstSeen(tradeHistory, a.symbol) < FirstSeen(tradeHistory, b.symbol)

\* the sort moved a later symbol to the front
C10_WitnessReordered ==
    /\ Summarized
    /\ Len(portfolioSummary.holdings) = 2
    /\ Less(portfolioSummary.holdings[2].currentValue, portfolioSummary.holdings[1].currentValue)
    /\ FirstSeen(tradeHistory, portfolioSummary.holdings[2].symbol)
          < FirstSeen(tradeHistory, portfolioSummary.holdings[1].symbol)

(***************************************************************************)
(* C11                                                                     *)
(***************************************************************************)
\* x rounded to cents, a tie on the half cent going away from zero
RoundHalfAway(x) ==
    LET cents == Times(IF Negative(x) THEN Minus(Zero, x) ELSE x, Whole(100))
        n     == (2 * cents[1] + cents[2]) \div (2 * cents[2])
    IN  Num(IF Negative(x) THEN -n ELSE n, 100)

\* C11 as claimed: every monetary output of the summary (per holding
\* averagePrice, investedValue, currentValue, pnl; totalInvested,
\* totalCurrentValue, totalPnL) is the exact value rounded to 2 decimals
\* with half-cent ties away from zero, for negative values too.
C11_AsClaimed ==
    Summarized =>
        /\ \A i \in 1..Len(portfolioSummary.holdings) :
              LET h        == portfolioSummary.holdings[i]
                  position == PositionOf(h)
                  current  == ExactCurrentValue(h)
              IN  /\ h.averagePrice  = RoundHalfAway(Over(position.totalCost, position.quantity))
                  /\ h.investedValue = RoundHalfAway(position.totalCost)
                  /\ h.currentValue  = RoundHalfAway(current)
                  /\ h.pnl           = RoundHalfAway(Minus(current, position.totalCost))
        /\ portfolioSummary.totalInvested = RoundHalfAway(calculateInvestedValue(tradeHistory))
        /\ portfolioSummary.totalCurrentValue = RoundHalfAway(QuotedValue)
        /\ portfolioSummary.totalPnL =
              RoundHalfAway(Minus(QuotedValue, calculateInvestedValue(tradeHistory)))

(***************************************************************************)
(* Reference quantities of the growth series, computed from the ledger     *)
(***************************************************************************)
LedgerDates(ledger) == {ledger[k].date : k \in 1..Len(ledger)}

\* the trades dated Dates[1] .. Dates[n], date by date, each date's trades
\* in ledger order
RECURSIVE ByDateUpTo(_, _)
ByDateUpTo(ledger, n) ==
    IF n = 0 THEN <<>>
    ELSE ByDateUpTo(ledger, n - 1) \o SelectSeq(ledger, LAMBDA t : t.date = Dates[n])

\* the trades dated date or earlier, in that order
TradesUntil(ledger, date) == ByDateUpTo(ledger, DateTime(date))

\* the shares of sym held after the first k of the trades, a count that
\* reaches zero or less starting again from zero
RECURSIVE SharesHeld(_, _, _)
SharesHeld(trades, k, sym) ==
    IF k = 0 THEN Zero
    ELSE LET held  == SharesHeld(trades, k - 1, sym)
             trade == trades[k]
             now   == IF trade.transactionType = "buy"
                      THEN Plus(held, trade.quantity)
                      ELSE Minus(held, trade.quantity)
         IN  IF trade.symbol # sym THEN held
             ELSE IF Positive(now) THEN now ELSE Zero

HeldOn(ledger, date, sym) ==
    SharesHeld(TradesUntil(ledger, date), Len(TradesUntil(ledger, date)), sym)

\* the symbols of a set in some fixed order
RECURSIVE SeqOfSet(_)
SeqOfSet(S) ==
    IF S = {} THEN <<>>
    ELSE LET x == CHOOSE y \in S : TRUE IN <<x>> \o SeqOfSet(S \ {x})

\* quantity * quote price summed over the quoted symbols held on the date
ValueOn(ledger, prices, date) ==
    LET quoted == SeqOfSet({sym \in DOMAIN prices : Positive(HeldOn(ledger, date, sym))})
    IN  SumSeq([i \in 1..Len(quoted) |->
                   Times(HeldOn(ledger, date, quoted[i]), prices[quoted[i]].price)])

(***************************************************************************)
(* C12                                                                     *)
(***************************************************************************)
\* C12: the growth series has exactly one point per distinct date of the
\* ledger, whatever the order of the ledger, and its dates are strictly
\* ascending.
C12_OnePointPerDate ==
    GrowthReturned =>
        /\ Len(growthData) = Cardinality(LedgerDates(tradeHistory))
        /\ {growthData[i].date : i \in 1..Len(growthData)} = LedgerDates(tradeHistory)
        /\ \A i, j \in 1..Len(growthData) :
              i < j => DateTime(growthData[i].date) < DateTime(growthData[j].date)

\* a ledger that is not in date order and has two trades on one date
C12_Witness ==
    /\ GrowthReturned
    /\ Len(growthData) = 2
    /\ Len(tradeHistory) = 3
    /\ DateTime(tradeHistory[3].date) < DateTime(tradeHistory[1].date)
    /\ tradeHistory[2].date = tradeHistory[1].date

RunningOn(ledger, prices, date) ==
    LET trades == sortedTrades(ledger)
        dates  == GrowthDates(trades)
        k      == CHOOSE i \in 1..Len(dates) : dates[i] = date
    IN  GrowthUpTo(trades, dates, prices, k).holdings

\* C14 as claimed: after the trades dated <= D the reconstruction holds, for
\* each symbol, the quantity and cost basis that the aggregator accumulates
\* on the date-sorted ledger restricted to the trades dated <= D, also after
\* a sell has driven the quantity to zero or below.
C14_AsClaimed ==
    GrowthReturned =>
        \A date \in LedgerDates(tradeHistory) : \A sym \in Symbols :
            LET until  == TradesUntil(tradeHistory, date)
                raw    == PositionAfter(until, Len(until), sym)
                mine   == RunningExisting(RunningOn(tradeHistory, livePrices, date), sym)
            IN  /\ mine.quantity = raw.quantity
                /\ mine.totalCost = raw.totalCost

(***************************************************************************)
(* C15                                                                     *)
(***************************************************************************)
\* the running map after the first k trades of the date-sorted ledger
RunningAfter(ledger, k) == RunningAfterDay(<<>>, sortedTrades(ledger), k)

\* C15: in the reconstruction a symbol is in the running map exactly while
\* its quantity is > 0; a symbol whose quantity reaches zero or less is
\* removed from the map, and the next buy of it starts from quantity 0 and
\* cost basis 0.
C15_DroppedFromRunningMap ==
    GrowthReturned =>
        LET trades == sortedTrades(tradeHistory)
            dates  == GrowthDates(trades)
        IN  /\ GrowthUpTo(trades, dates, livePrices, Len(dates)).holdings
                  = RunningAfter(tradeHistory, Len(trades))
            /\ \A k \in 1..Len(trades) :
                  LET before == RunningAfter(tradeHistory, k - 1)
                      after  == RunningAfter(tradeHistory, k)
                      trade  == trades[k]
                  IN  /\ \A i \in 1..Len(after) : Positive(after[i].quantity)
                      /\ \A sym \in Symbols :
                            sym \in MapKeys(after) <=> Positive(SharesHeld(trades, k, sym))
                      /\ (trade.transactionType = "buy" /\ trade.symbol \notin MapKeys(before)) =>
                            /\ RunningExisting(after, trade.symbol).quantity = trade.quantity
                            /\ RunningExisting(after, trade.symbol).totalCost
                                  = Times(trade.quantity, trade.price)

\* a position with a cost basis was oversold and the symbol bought again
C15_Witness ==
    /\ GrowthReturned
    /\ \E k \in 2..(Len(tradeHistory) - 1) :
          LET trades == sortedTrades(tradeHistory)
              sym    == trades[k].symbol
          IN  /\ trades[k].transactionType = "sell"
              /\ sym \in MapKeys(RunningAfter(tradeHistory, k - 1))
              /\ Less(RunningExisting(RunningAfter(tradeHistory, k - 1), sym).quantity,
                      trades[k].quantity)
              /\ sym \notin MapKeys(RunningAfter(tradeHistory, k))
              /\ trades[k + 1].symbol = sym
              /\ trades[k + 1].transactionType = "buy"
              /\ sym \in MapKeys(RunningAfter(tradeHistory, k + 1))

(***************************************************************************)
(* C16                                                                     *)
(***************************************************************************)
\* C16: for the empty ledger and any price map, calculateHoldings returns an
\* empty map, calculatePortfolioSummary returns four zero totals and an empty
\* list of holdings, calculatePortfolioGrowthOverTime returns an empty
\* sequence, and calculateSectorAllocation of the empty list is empty.
C16_EmptyLedger ==
    tradeHistory = <<>> =>
        /\ (Aggregated \/ Allocated) => (holdings = <<>> /\ warned = <<>>)
        /\ (Summarized \/ Allocated) =>
              /\ portfolioSummary.totalInvested = Zero
              /\ portfolioSummary.totalCurrentValue = Zero
              /\ portfolioSummary.totalPnL = Zero
              /\ portfolioSummary.totalPnLPercent = Zero
              /\ portfolioSummary.holdings = <<>>
        /\ GrowthReturned => growthData = <<>>
        /\ Allocated => sectorData = <<>>

\* the summary and the allocation of the empty ledger, under a price map
\* that has quotes
C16_Witness ==
    /\ tradeHistory = <<>>
    /\ livePrices # NoPrices
    /\ Allocated
    /\ sectorData = <<>>

(***************************************************************************)
(* C17                                                                     *)
(***************************************************************************)
\* C17: for the ledger [buy AAPL 100 @ 150.50 on 2024-01-15, sell AAPL 50 @
\* 155.00 on 2024-02-01] and the price map {AAPL: 160.00} the summary has a
\* single holding with quantity 50, averagePrice 150.50, investedValue
\* 7525.00, currentValue 8000.00, pnl 475.00 and pnlPercent 6.31.
C17_WorkedExample ==
    (Summarized /\ tradeHistory = ExampleLedger /\ livePrices = ExamplePrices) =>
        portfolioSummary.holdings =
            <<[symbol        |-> "AAPL",
               quantity      |-> Whole(50),
               averagePrice  |-> Num(15050, 100),
               investedValue |-> Whole(7525),
               currentValue  |-> Whole(8000),
               pnl           |-> Whole(475),
               pnlPercent    |-> Num(631, 100)]>>

C17_Witness ==
    /\ Summarized
    /\ tradeHistory = ExampleLedger
    /\ livePrices = ExamplePrices
    /\ Len(portfolioSummary.holdings) = 1
    /\ portfolioSummary.totalPnL = Whole(-7050)

(***************************************************************************)
(* C18                                                                     *)
(***************************************************************************)
\* the category of a symbol, read off the table
CategoryOf(symbol) ==
    IF symbol \in SectorSymbols THEN sectorMap(symbol) ELSE "Other"

\* the sum of currentValue over the holdings that satisfy keep
ValueOfHoldings(hs, keep(_)) ==
    LET kept == SelectSeq(hs, keep)
    IN  SumSeq([i \in 1..Len(kept) |-> kept[i].currentValue])

CategoryValue(hs, category) ==
    ValueOfHoldings(hs, LAMBDA h : CategoryOf(h.symbol) = category)

AllHoldingsValue(hs) == ValueOfHoldings(hs, LAMBDA h : TRUE)

\* value / sum of all current values * 100, or 0 when that sum is 0
ExactShare(hs, category) ==
    IF AllHoldingsValue(hs) = Zero THEN Zero
    ELSE Times(Over(CategoryValue(hs, category), AllHoldingsValue(hs)), Whole(100))

\* one entry per category that has a holding, with the value of the category
\* and with the percentage given by share, ordered by non-increasing value
AllocationIs(share(_, _)) ==
    LET hs         == portfolioSummary.holdings
        categories == {CategoryOf(hs[i].symbol) : i \in 1..Len(hs)}
    IN  /\ Len(sectorData) = Cardinality(categories)
        /\ {sectorData[i].name : i \in 1..Len(sectorData)} = categories
        /\ \A i \in 1..Len(sectorData) :
              /\ sectorData[i].value = CategoryValue(hs, sectorData[i].name)
              /\ sectorData[i].percentage = share(hs, sectorData[i].name)
        /\ \A i, j \in 1..Len(sectorData) :
              i < j => LessEq(sectorData[j].value, sectorData[i].value)

ExactShareOf(hs, category) == ExactShare(hs, category)
RoundedShareOf(hs, category) == RoundCents(ExactShare(hs, category))

\* C18 as claimed: the percentage of a category is value / sum of all
\* holdings' currentValue * 100.
C18_AsClaimed == Allocated => AllocationIs(ExactShareOf)

\* C18 amended: calculateSectorAllocation returns one entry per category that
\* has a holding; a holding has the category of the table or 'Other'; the
\* value of a category is the sum of currentValue of its holdings; its
\* percentage is value / sum of all current values * 100 rounded to 2
\* decimals, or 0 when that sum is 0; entries are ordered by non-increasing
\* value; a single holding AAPL of value 8000 gives {Technology, 8000, 100}.
C18_AllocationByCategory ==
    Allocated =>
        /\ AllocationIs(RoundedShareOf)
        /\ portfolioSummary.holdings = <<HoldingOf("AAPL", Whole(8000))>> =>
              sectorData = <<[name |-> "Technology", value |-> Whole(8000),
                              percentage |-> Whole(100)]>>

\* two holdings of one category and one of a symbol outside the table, the
\* categories coming out in another order than the holdings went in, with a
\* percentage that needs rounding
C18_Witness ==
    /\ Allocated
    /\ Len(portfolioSummary.holdings) = 3
    /\ Len(sectorData) = 2
    /\ sectorData[2].name = "Other"
    /\ portfolioSummary.holdings[1].symbol \notin SectorSymbols
    /\ sectorData[1].percentage # ExactShare(portfolioSummary.holdings, sectorData[1].name)

(***************************************************************************)
(* C19                                                                     *)
(***************************************************************************)
\* what a call on the ledger and the price map returns, for the call that
\* has returned
ReturnsAgain(ledger, prices, summary) ==
    /\ returned' = "calculateHoldings" => holdings' = calculateHoldings(ledger)
    /\ returned' = "calculatePortfolioSummary" =>
          portfolioSummary' = calculatePortfolioSummary(ledger, prices)
    /\ returned' = "calculatePortfolioGrowthOverTime" =>
          growthData' = calculatePortfolioGrowthOverTime(ledger, prices)
    /\ returned' = "calculateSectorAllocation" =>
          sectorData' = calculateSectorAllocation(summary.holdings)

AllFinite ==
    /\ \A i \in 1..Len(holdings) :
          IsFinite(holdings[i].quantity) /\ IsFinite(holdings[i].totalCost)
    /\ IsFinite(portfolioSummary.totalInvested)
    /\ IsFinite(portfolioSummary.totalCurrentValue)
    /\ IsFinite(portfolioSummary.totalPnL)
    /\ IsFinite(portfolioSummary.totalPnLPercent)
    /\ \A i \in 1..Len(portfolioSummary.holdings) :
          LET h == portfolioSummary.holdings[i]
          IN  /\ IsFinite(h.quantity)
              /\ IsFinite(h.averagePrice)
              /\ IsFinite(h.investedValue)
              /\ IsFinite(h.currentValue)
              /\ IsFinite(h.pnl)
              /\ IsFinite(h.pnlPercent)
    /\ \A i \in 1..Len(growthData) : IsFinite(growthData[i].value)
    /\ \A i \in 1..Len(sectorData) :
          IsFinite(sectorData[i].value) /\ IsFinite(sectorData[i].percentage)

\* the divisions whose denominator is zero give 0
ZeroDenominatorGivesZero ==
    /\ Aggregated =>
          \A sym \in Symbols :
              ~HasBuy(tradeHistory, sym) =>
                  PositionAfter(tradeHistory, Len(tradeHistory), sym).totalCost = Zero
    /\ (Summarized \/ Allocated) =>
          /\ portfolioSummary.totalInvested = Zero =>
                portfolioSummary.totalPnLPercent = Zero
          /\ \A i \in 1..Len(portfolioSummary.holdings) :
                portfolioSummary.holdings[i].investedValue = Zero =>
                    portfolioSummary.holdings[i].pnlPercent = Zero
    /\ (Allocated /\ AllHoldingsValue(portfolioSummary.holdings) = Zero) =>
          \A i \in 1..Len(sectorData) : sectorData[i].percentage = Zero

\* C20: on every ledger, with oversells, sells of symbols never bought and
\* held symbols without a quote, every number of the result of a core
\* operation is finite (not NaN, not an Infinity), and a division whose
\* denominator is zero gives 0.
C20_TotalAndFinite ==
    /\ AllFinite
    /\ ZeroDenominatorGivesZero

\* the allocation of a held symbol without a quote, in a ledger with a sell
\* of a symbol never bought: the total of the current values is zero
C20_Witness ==
    /\ Allocated
    /\ warned # <<>>
    /\ \E sym \in Symbols : HasSell(tradeHistory, sym) /\ ~HasBuy(tradeHistory, sym)
    /\ portfolioSummary.holdings # <<>>
    /\ \A i \in 1..Len(portfolioSummary.holdings) :
          portfolioSummary.holdings[i].symbol \notin DOMAIN livePrices
    /\ sectorData # <<>>
    /\ \A i \in 1..Len(sectorData) : sectorData[i].percentage = Zero

(***************************************************************************)
(* C24                                                                     *)
(***************************************************************************)
\* the trade with another execution price
AtPrice(trade, price) == [trade EXCEPT !.price = price]

OtherPrices == {Whole(1), Whole(7), Num(1, 2)}

\* the k-th trade sells a part of the position it finds
SellsPart(ledger, k) ==
    /\ ledger[k].transactionType = "sell"
    /\ Positive(PositionAfter(ledger, k - 1, ledger[k].symbol).quantity)
    /\ Less(ledger[k].quantity, PositionAfter(ledger, k - 1, ledger[k].symbol).quantity)

\* C24: a sell of q shares from a position of Q > q > 0 shares leaves the
\* average price costBasis / quantity as it was, takes the fraction q / Q off
\* the cost basis, and does the same whatever the execution price of the
\* sell.
C24_AverageCostPolicy ==
    Aggregated =>
        \A k \in 1..Len(tradeHistory) :
            SellsPart(tradeHistory, k) =>
                LET trade  == tradeHistory[k]
                    before == PositionAfter(tradeHistory, k - 1, trade.symbol)
                    after  == PositionAfter(tradeHistory, k, trade.symbol)
                IN  /\ Over(after.totalCost, after.quantity)
                          = Over(before.totalCost, before.quantity)
                    /\ Minus(before.totalCost, after.totalCost)
                          = Times(before.totalCost, Over(trade.quantity, before.quantity))
                    /\ \A price \in OtherPrices :
                          LET repriced == Sell(before, AtPrice(trade, price))
                          IN  /\ repriced.quantity = after.quantity
                              /\ repriced.totalCost = after.totalCost

\* a part of a position bought at two prices is sold at a third price
C24_Witness ==
    /\ Aggregated
    /\ \E k \in 1..Len(tradeHistory) :
          /\ SellsPart(tradeHistory, k)
          /\ LET before == PositionAfter(tradeHistory, k - 1, tradeHistory[k].symbol)
             IN  /\ Over(before.totalCost, before.quantity) # tradeHistory[k].price
                 /\ Len(before.trades) = 2
                 /\ before.trades[1].price # before.trades[2].price

(***************************************************************************)
(* C25                                                                     *)
(***************************************************************************)
InDateOrder(ledger) ==
    \A i, j \in 1..Len(ledger) : i < j => DateTime(ledger[i].date) <= DateTime(ledger[j].date)

\* C25 as claimed: for a non-empty ledger in ascending date order the value
\* of the last point of the growth series is the totalCurrentValue of the
\* summary of the same ledger and price map.
C25_AsClaimed ==
    (GrowthReturned /\ tradeHistory # <<>> /\ InDateOrder(tradeHistory)) =>
        growthData[Len(growthData)].value
            = calculatePortfolioSummary(tradeHistory, livePrices).totalCurrentValue

(***************************************************************************)
(* C26                                                                     *)
(***************************************************************************)
\* the ledger with the price of its k-th trade, or of all its trades, changed
WithPriceAt(ledger, k, price) == [ledger EXCEPT ![k] = AtPrice(ledger[k], price)]
WithPrices(ledger, price) == [k \in 1..Len(ledger) |-> AtPrice(ledger[k], price)]

SumOfHoldingPnL ==
    SumSeq([i \in 1..Len(portfolioSummary.holdings) |-> portfolioSummary.holdings[i].pnl])

\* C27 as claimed: totalPnL is totalCurrentValue - totalInvested rounded to
\* cents, totalPnLPercent is totalPnL / totalInvested * 100 when
\* totalInvested > 0 and 0 otherwise, and totalPnL is within 0.01 per holding
\* of the sum of the holdings' pnl.
C27_AsClaimed ==
    Summarized =>
        /\ portfolioSummary.totalPnL
              = RoundCents(Minus(portfolioSummary.totalCurrentValue,
                                 portfolioSummary.totalInvested))
        /\ Positive(portfolioSummary.totalInvested) =>
              portfolioSummary.totalPnLPercent
                  = RoundCents(Times(Over(Minus(QuotedValue,
                                                calculateInvestedValue(tradeHistory)),
                                          calculateInvestedValue(tradeHistory)),
                                     Whole(100)))
        /\ ~Positive(portfolioSummary.totalInvested) =>
              portfolioSummary.totalPnLPercent = Zero
        /\ LessEq(Distance(portfolioSummary.totalPnL, SumOfHoldingPnL),
                  Times(Cent, Whole(Len(portfolioSummary.holdings))))


\* ------------------------------------------------------------------------
\* CSV import: parseCSVText and its helpers.
\*
\* A CSV text is its header line and its data lines; a line is the sequence
\* of its cells as line.split(',').map(trim) gives them, and the empty
\* sequence is a line that is empty after trim().  Symbol, quantity and
\* price cells are sequences of characters, so that parseFloat and
\* toUpperCase work on the characters; date and type cells are whole words.
\* ------------------------------------------------------------------------

\* how many data lines a text has at most
MaxRows == 2

Digits == <<"0", "1", "2", "3", "4", "5", "6", "7", "8", "9">>

IsDigit(c) == \E k \in 1..10 : Digits[k] = c

\* how many leading characters of a text are decimal digits
RECURSIVE DigitPrefix(_)
DigitPrefix(text) ==
    IF text = <<>> \/ ~IsDigit(Head(text)) THEN 0 ELSE 1 + DigitPrefix(Tail(text))

RECURSIVE Pow10(_)
Pow10(k) == IF k = 0 THEN 1 ELSE 10 * Pow10(k - 1)

\* the value of a run of decimal digits
RECURSIVE DigitsValue(_)
DigitsValue(text) ==
    IF text = <<>> THEN 0
    ELSE ((CHOOSE k \in 1..10 : Digits[k] = Head(text)) - 1) * Pow10(Len(text) - 1)
         + DigitsValue(Tail(text))

\* parseFloat: the number written by the longest prefix of the text that is
\* a decimal literal (sign, digits, point, digits), NaN when no prefix is
\* one; whatever follows the literal is ignored.  The texts here hold no
\* exponent, no leading blank and not the word Infinity.
parseFloat(text) ==
    LET signed   == text # <<>> /\ Head(text) \in {"-", "+"}
        unsigned == IF signed THEN Tail(text) ELSE text
        whole    == DigitPrefix(unsigned)
        rest     == SubSeq(unsigned, whole + 1, Len(unsigned))
        pointed  == rest # <<>> /\ Head(rest) = "."
        fraction == IF pointed THEN DigitPrefix(Tail(rest)) ELSE 0
        value    == Num(DigitsValue(SubSeq(unsigned, 1, whole)) * Pow10(fraction)
                          + DigitsValue(SubSeq(rest, 2, fraction + 1)),
                        Pow10(fraction))
    IN  IF whole = 0 /\ fraction = 0 THEN <<0, 0>>
        ELSE IF signed /\ Head(text) = "-" THEN Times(Whole(-1), value) ELSE value

LowerLetters == <<"a", "b", "x", "y">>

UpperLetters == <<"A", "B", "X", "Y">>

\* String.prototype.toUpperCase, character by character
toUpperCase(text) ==
    [k \in 1..Len(text) |->
        IF \E j \in 1..4 : LowerLetters[j] = text[k]
        THEN UpperLetters[CHOOSE j \in 1..4 : LowerLetters[j] = text[k]]
        ELSE text[k]]

\* String.prototype.toLowerCase on the words a type cell can hold
toLowerCase(word) ==
    CASE word = "SELL" -> "sell"
      [] word = "B"    -> "b"
      [] OTHER         -> word

getHeaderVariations(header) ==
    CASE header = "date"     -> <<"date", "trade_date", "transaction_date", "dt">>
      [] header = "symbol"   -> <<"symbol", "stock", "ticker", "stock_symbol">>
      [] header = "quantity" -> <<"quantity", "qty", "shares", "units">>
      [] header = "price"    -> <<"price", "rate", "unit_price", "share_price">>
      [] header = "type"     -> <<"type", "transaction_type", "side", "buy_sell", "action">>
      [] OTHER               -> <<header>>

InSeq(x, seq) == \E k \in 1..Len(seq) : seq[k] = x

\* headers.findIndex(h => variations.includes(h)), 0 for -1
HeaderIndex(headers, header) ==
    IF \E k \in 1..Len(headers) : InSeq(headers[k], getHeaderVariations(header))
    THEN CHOOSE k \in 1..Len(headers) :
            /\ InSeq(headers[k], getHeaderVariations(header))
            /\ \A j \in 1..(k - 1) : ~InSeq(headers[j], getHeaderVariations(header))
    ELSE 0

\* parseDate: the ISO date of the cell, or the error it throws.  The date
\* cells are an ISO date, 15.01.2024, which no pattern of formats accepts,
\* and 2024-13-45, which the first pattern accepts and new Date() does not.
parseDate(cell) ==
    IF cell \notin {"2024-01-15", "2024-13-45"}
    THEN [ok |-> FALSE, message |-> "Invalid date format"]
    ELSE IF cell = "2024-13-45" THEN [ok |-> FALSE, message |-> "Invalid date"]
    ELSE [ok |-> TRUE, date |-> cell]

parseTransactionType(cell) ==
    LET cleaned == toLowerCase(cell)
    IN  IF cleaned \in {"buy", "b", "purchase", "long"} THEN [ok |-> TRUE, type |-> "buy"]
        ELSE IF cleaned \in {"sell", "s", "sale", "short"} THEN [ok |-> TRUE, type |-> "sell"]
        ELSE [ok |-> FALSE, message |-> "Invalid transaction type"]

isNaN(x) == x = <<0, 0>>

\* validateTradeRecord: the message of the error it throws, "none" when it
\* returns
validateTradeRecord(record) ==
    IF Len(record.symbol) = 0 THEN "Symbol cannot be empty"
    ELSE IF isNaN(record.quantity) \/ LessEq(record.quantity, Zero) THEN "Invalid quantity"
    ELSE IF isNaN(record.price) \/ LessEq(record.price, Zero) THEN "Invalid price"
    ELSE IF record.transactionType \notin {"buy", "sell"} THEN "Invalid transaction type"
    ELSE "none"

\* the body of the try block of one data row: the record, or the error
ParseRow(values, headers) ==
    LET date == parseDate(values[HeaderIndex(headers, "date")])
        type == parseTransactionType(values[HeaderIndex(headers, "type")])
        record == [date            |-> date.date,
                   symbol          |-> toUpperCase(values[HeaderIndex(headers, "symbol")]),
                   quantity        |-> parseFloat(values[HeaderIndex(headers, "quantity")]),
                   price           |-> parseFloat(values[HeaderIndex(headers, "price")]),
                   transactionType |-> type.type]
    IN  IF ~date.ok THEN [ok |-> FALSE, message |-> date.message]
        ELSE IF ~type.ok THEN [ok |-> FALSE, message |-> type.message]
        ELSE IF validateTradeRecord(record) # "none"
             THEN [ok |-> FALSE, message |-> validateTradeRecord(record)]
        ELSE [ok |-> TRUE, record |-> record]

\* csvText.trim(): the empty lines at the end of the text are not lines
RECURSIVE TrimEnd(_)
TrimEnd(rows) ==
    IF rows # <<>> /\ rows[Len(rows)] = <<>> THEN TrimEnd(SubSeq(rows, 1, Len(rows) - 1))
    ELSE rows

Failure(row, message) ==
    [called |-> TRUE, ok |-> FALSE, records |-> <<>>, row |-> row, message |-> message]

\* the loop over the data rows from lines[i] on; lines[1] is the header, so
\* that lines[i] here is lines[i - 1] of the code and its row number is i
RECURSIVE ParseRows(_, _, _)
ParseRows(lines, i, records) ==
    IF i > Len(lines)
    THEN [called |-> TRUE, ok |-> TRUE, records |-> records, row |-> 0, message |-> "none"]
    ELSE IF lines[i] = <<>> THEN ParseRows(lines, i + 1, records)
    ELSE IF Len(lines[i]) # Len(lines[1]) THEN Failure(i, "Expected columns")
    ELSE IF ~ParseRow(lines[i], lines[1]).ok
         THEN Failure(i, ParseRow(lines[i], lines[1]).message)
    ELSE ParseRows(lines, i + 1, Append(records, ParseRow(lines[i], lines[1]).record))

\* parseCSVText: the records, or the error thrown with the row it names
\* (row 0: the message names no row)
parseCSVText(text) ==
    LET lines == <<text.headers>> \o TrimEnd(text.rows)
    IN  IF Len(lines) < 2 THEN Failure(0, "CSV must contain at least a header row and one data row")
        ELSE IF \E header \in {"date", "symbol", "quantity", "price", "type"} :
                    HeaderIndex(text.headers, header) = 0
             THEN Failure(0, "Required column not found")
        ELSE ParseRows(lines, 2, <<>>)

\* the header lines: the plain one, one of accepted variations, and one
\* without a type column
HeaderLines ==
    { <<"date", "symbol", "quantity", "price", "type">>,
      <<"dt", "ticker", "qty", "rate", "side">>,
      <<"date", "symbol", "quantity", "price", "kind">> }

GoodRow == <<"2024-01-15", <<"a", "b">>, <<"1", "0">>, <<"2", ".", "5">>, "buy">>

\* the data lines: rows that differ from a good row in one cell, a row of
\* four cells and the empty line
RowKinds ==
    { GoodRow, <<>>,
      <<"2024-01-15", <<"a", "b">>, <<"1", "0">>, <<"5">> >> }
    \cup { [GoodRow EXCEPT ![1] = d] : d \in {"15.01.2024", "2024-13-45"} }
    \cup { [GoodRow EXCEPT ![2] = <<>>], [GoodRow EXCEPT ![2] = <<"X", "y">>] }
    \cup { [GoodRow EXCEPT ![3] = q] :
             q \in { <<"1", "0", "a", "b">>, <<"a", "1">>, <<"0">>, <<"-", "1">>,
                     <<>>, <<".", "5">> } }
    \cup { [GoodRow EXCEPT ![4] = q] : q \in { <<"5", "x">>, <<"x">>, <<"0">> } }
    \cup { [GoodRow EXCEPT ![5] = t] : t \in {"SELL", "B", "hold"} }

CsvTexts ==
    { [headers |-> h, rows |-> rows] : h \in HeaderLines, rows \in SeqsUpTo(RowKinds, MaxRows) }

\* the importer is given a text; it keeps nothing between calls, so a
\* behaviour holds one call
CallParseCSVText ==
    /\ ~parsed.called
    /\ \E text \in CsvTexts :
          /\ csvText' = text
          /\ parsed' = parseCSVText(text)
    /\ UNCHANGED <<coreVars, managerVars>>

\* nothing has been called: no ledger, no text, a manager just constructed
InitIdle ==
    /\ Constructed
    /\ NothingParsed
    /\ tradeHistory = <<>>
    /\ livePrices = NoPrices
    /\ returned = "nothing"
    /\ holdings = <<>>
    /\ warned = <<>>
    /\ portfolioSummary = NoSummary
    /\ growthData = <<>>
    /\ sectorData = <<>>

SpecCSV == InitIdle /\ [][CallParseCSVText]_vars

\* -- what the import is said to do --------------------------------------

\* the whole cell is a decimal literal
IsNumberText(cell) ==
    LET unsigned == IF cell # <<>> /\ Head(cell) \in {"-", "+"} THEN Tail(cell) ELSE cell
        points   == { k \in 1..Len(unsigned) : unsigned[k] = "." }
    IN  /\ \A k \in 1..Len(unsigned) : IsDigit(unsigned[k]) \/ unsigned[k] = "."
        /\ Cardinality(points) <= 1
        /\ \E k \in 1..Len(unsigned) : IsDigit(unsigned[k])

\* a non-empty data row is valid: five cells, a date of the calendar, a
\* quantity and a price that are positive numbers, and a known type
RowIsValid(row) ==
    /\ Len(row) = 5
    /\ row[1] = "2024-01-15"
    /\ row[2] # <<>>
    /\ IsNumberText(row[3]) /\ Less(Zero, parseFloat(row[3]))
    /\ IsNumberText(row[4]) /\ Less(Zero, parseFloat(row[4]))
    /\ row[5] \in {"buy", "SELL", "B"}

\* the rows of the text that are data rows: not the empty lines
InvalidRows(text) ==
    { k \in 1..Len(text.rows) : text.rows[k] # <<>> /\ ~RowIsValid(text.rows[k]) }

IsUpperCased(symbol) == \A k \in 1..Len(symbol) : ~InSeq(symbol[k], LowerLetters)

\* C23: the import returns records only if every non-empty data row is
\* valid, every returned record has a non-empty upper-cased symbol, a
\* positive quantity, a positive price and a type of buy or sell, and one
\* invalid row (wrong column count, bad date, non-positive or non-numeric
\* quantity or price, unknown type) makes the parse fail with an error that
\* names a row and yields no records.
C23_AsClaimed ==
    parsed.called =>
        /\ parsed.ok =>
              /\ InvalidRows(csvText) = {}
              /\ \A k \in 1..Len(parsed.records) :
                    /\ parsed.records[k].symbol # <<>>
                    /\ IsUpperCased(parsed.records[k].symbol)
                    /\ Less(Zero, parsed.records[k].quantity)
                    /\ Less(Zero, parsed.records[k].price)
                    /\ parsed.records[k].transactionType \in {"buy", "sell"}
        /\ (InvalidRows(csvText) # {} /\ HeaderIndex(csvText.headers, "type") # 0) =>
              /\ ~parsed.ok
              /\ parsed.row \in { k + 1 : k \in InvalidRows(csvText) }
              /\ parsed.records = <<>>

\* ------------------------------------------------------------------------
\* WebSocketManager.
\*
\* ws is 0 for null and otherwise the index in sockets of the WebSocket the
\* manager holds.  A socket is its readyState, whether it has ever opened,
\* and whether the connect() that made it was called by a reconnect timer.
\* The three subscriber Sets are sequences in insertion order.  A step is
\* one call of the client, one timer callback or one task of a socket; the
\* promise reactions that a step makes ready run inside it.  A callback is
\* a name: what a callback does besides returning or throwing, a call into
\* the manager included, is not part of a step.
\* ------------------------------------------------------------------------

\* how many WebSocket objects a behaviour creates at most
MaxSockets == 6

maxReconnectAttempts == 5

reconnectDelay == 1000

\* the callbacks that throw when they are called
Throwing == {"onPriceThrows"}

\* Set.prototype.add and Set.prototype.delete
SetAdd(set, x) == IF InSeq(x, set) THEN set ELSE Append(set, x)

SetDelete(set, x) == SelectSeq(set, LAMBDA y : y # x)

RECURSIVE InvokeAll_UntilThrow(_)
InvokeAll_UntilThrow(set) ==
    IF set = <<>> THEN <<>>
    ELSE IF Head(set) \in Throwing THEN <<Head(set)>>
    ELSE <<Head(set)>> \o InvokeAll_UntilThrow(Tail(set))

\* subscribers.forEach with the try/catch around each call: the callbacks
\* that are called, in order; one that throws does not end the loop
InvokeAll(set) == set

\* notifySubscribers, notifyErrorSubscribers, notifyStatusSubscribers: the
\* call with its argument and the callbacks it reaches
notifySubscribers(data) == [kind |-> "price", data |-> data, to |-> InvokeAll(subscribers)]

notifyErrorSubscribers(error) ==
    [kind |-> "error", data |-> error, to |-> InvokeAll(errorSubscribers)]

notifyStatusSubscribers(status) ==
    [kind |-> "status", data |-> status, to |-> InvokeAll(statusSubscribers)]

\* this.ws?.readyState
ReadyState == IF ws = 0 THEN "undefined" ELSE sockets[ws].readyState

\* what connect() does with its promise before it returns (lines 270-278)
ConnectOutcome ==
    IF ReadyState = "OPEN" THEN "resolved"
    ELSE IF isConnecting THEN "rejected"
    ELSE "pending"

\* a socket that is closed has no further events: what it was is forgotten
ClosedSocket == [readyState |-> "CLOSED", opened |-> FALSE, byTimer |-> FALSE]

\* connect(): the fields it assigns and the notices it gives
connect(byTimer) ==
    IF ConnectOutcome = "pending"
    THEN /\ Len(sockets) < MaxSockets
         /\ isConnecting' = TRUE
         /\ sockets' = Append(sockets, [readyState |-> "CONNECTING", opened |-> FALSE,
                                         byTimer |-> byTimer])
         /\ ws' = Len(sockets) + 1
    ELSE UNCHANGED <<isConnecting, sockets, ws>>

ConnectNotices == IF ConnectOutcome = "pending" THEN <<notifyStatusSubscribers("connecting")>> ELSE <<>>

\* an operation of the manager as it is remembered: its kind, the wasClean
\* of a close event, what became of the promise of connect(), the message
\* handled, the delay of the timer that was set (0: none), and the notices
Operation(op, wasClean, outcome, message, calls) ==
    [op |-> op, wasClean |-> wasClean, outcome |-> outcome, message |-> message,
     scheduled |-> 0, calls |-> calls]

subscriptionVars == <<subscribers, errorSubscribers, statusSubscribers, unsubscribeFns, released>>

\* the client calls connect()
ClientConnect ==
    /\ connect(FALSE)
    /\ disconnected' = FALSE
    /\ last' = Operation("connect", FALSE, ConnectOutcome, "none", ConnectNotices)
    /\ UNCHANGED <<reconnectAttempts, timers, subscriptionVars, coreVars, csvVars>>

CatchNotices_AboveMax ==
    IF reconnectAttempts > maxReconnectAttempts
    THEN <<notifyErrorSubscribers("Failed to reconnect after maximum attempts")>>
    ELSE <<>>

\* the reaction of connect().catch in the timer callback (lines 357-362)
CatchNotices ==
    IF reconnectAttempts >= maxReconnectAttempts
    THEN <<notifyErrorSubscribers("Failed to reconnect after maximum attempts")>>
    ELSE <<>>

\* the pending timers are kept in the order of their delays
RECURSIVE InsertTimer(_, _)
InsertTimer(pending, delay) ==
    IF pending = <<>> \/ delay <= Head(pending) THEN <<delay>> \o pending
    ELSE <<Head(pending)>> \o InsertTimer(Tail(pending), delay)

RemoveAt(seq, k) == SubSeq(seq, 1, k - 1) \o SubSeq(seq, k + 1, Len(seq))

\* the callback of a timer of scheduleReconnect runs (lines 355-363)
TimerFires ==
    \E k \in 1..Len(timers) :
        /\ timers' = RemoveAt(timers, k)
        /\ IF ReadyState # "OPEN"
           THEN /\ connect(TRUE)
                /\ last' = Operation("timer", FALSE, ConnectOutcome, "none",
                                     ConnectNotices \o
                                       (IF ConnectOutcome = "rejected" THEN CatchNotices ELSE <<>>))
           ELSE /\ UNCHANGED <<isConnecting, sockets, ws>>
                /\ last' = Operation("timer", FALSE, "none", "none", <<>>)
        /\ UNCHANGED <<reconnectAttempts, disconnected, subscriptionVars, coreVars, csvVars>>

\* the connection of a socket is established: onopen (lines 286-293)
SocketOpens ==
    \E s \in 1..Len(sockets) :
        /\ sockets[s].readyState = "CONNECTING"
        /\ sockets' = [sockets EXCEPT ![s].readyState = "OPEN", ![s].opened = TRUE]
        /\ isConnecting' = FALSE
        /\ reconnectAttempts' = 0
        /\ last' = Operation("open", FALSE, "resolved", "none",
                             <<notifyStatusSubscribers("connected")>>)
        /\ UNCHANGED <<ws, timers, disconnected, subscriptionVars, coreVars, csvVars>>

\* Math.min(this.reconnectDelay * Math.pow(2, this.reconnectAttempts - 1), 30000)
\* for the value reconnectAttempts has after the increment
ReconnectDelayOf(attempts) ==
    IF reconnectDelay * 2^(attempts - 1) < 30000
    THEN reconnectDelay * 2^(attempts - 1)
    ELSE 30000

Reconnects_AtMax(wasClean) == ~wasClean /\ reconnectAttempts <= maxReconnectAttempts

\* the condition of onclose under which scheduleReconnect runs (line 310)
Reconnects(wasClean) == ~wasClean /\ reconnectAttempts < maxReconnectAttempts

\* onclose (lines 305-313) with scheduleReconnect (lines 349-354)
onclose(wasClean) ==
    /\ isConnecting' = FALSE
    /\ IF Reconnects(wasClean)
       THEN /\ reconnectAttempts' = reconnectAttempts + 1
            /\ timers' = InsertTimer(timers, ReconnectDelayOf(reconnectAttempts + 1))
       ELSE UNCHANGED <<reconnectAttempts, timers>>

\* the connection of a socket fails, before it is established, after it,
\* or because close() was called before it was: the error event (lines
\* 315-321), the reaction to the rejected promise of a timer's connect(),
\* and the close event with wasClean false
SocketFails ==
    \E s \in 1..Len(sockets) :
        /\ \/ sockets[s].readyState \in {"CONNECTING", "OPEN"}
           \/ sockets[s].readyState = "CLOSING" /\ ~sockets[s].opened
        /\ sockets' = [sockets EXCEPT ![s] = ClosedSocket]
        /\ onclose(FALSE)
        /\ last' = [Operation("fails", FALSE,
                              IF sockets[s].opened THEN "none" ELSE "rejected", "none",
                              <<notifyStatusSubscribers("error"),
                                notifyErrorSubscribers("WebSocket connection error")>>
                              \o (IF sockets[s].byTimer /\ ~sockets[s].opened
                                  THEN CatchNotices ELSE <<>>)
                              \o <<notifyStatusSubscribers("disconnected")>>)
                      EXCEPT !.scheduled = IF Reconnects(FALSE)
                                           THEN ReconnectDelayOf(reconnectAttempts + 1)
                                           ELSE 0]
        /\ UNCHANGED <<ws, disconnected, subscriptionVars, coreVars, csvVars>>

\* the closing handshake of an open socket completes, started by the server
\* or by close(): the close event with wasClean true
SocketCloses ==
    \E s \in 1..Len(sockets) :
        /\ \/ sockets[s].readyState = "OPEN"
           \/ sockets[s].readyState = "CLOSING" /\ sockets[s].opened
        /\ sockets' = [sockets EXCEPT ![s] = ClosedSocket]
        /\ onclose(TRUE)
        /\ last' = Operation("closes", TRUE, "none", "none",
                             <<notifyStatusSubscribers("disconnected")>>)
        /\ UNCHANGED <<ws, disconnected, subscriptionVars, coreVars, csvVars>>

\* WebSocket.close(): a socket that is connecting or open is closing
CloseCalled(socket) ==
    IF socket.readyState \in {"CONNECTING", "OPEN"}
    THEN [socket EXCEPT !.readyState = "CLOSING"]
    ELSE socket

\* the client calls disconnect() (lines 420-428)
ClientDisconnect ==
    /\ sockets' = IF ws # 0 THEN [sockets EXCEPT ![ws] = CloseCalled(sockets[ws])] ELSE sockets
    /\ ws' = 0
    /\ subscribers' = <<>>
    /\ errorSubscribers' = <<>>
    /\ statusSubscribers' = <<>>
    /\ released' = released
                    \cup { <<"price", subscribers[k]>> : k \in 1..Len(subscribers) }
                    \cup { <<"error", errorSubscribers[k]>> : k \in 1..Len(errorSubscribers) }
                    \cup { <<"status", statusSubscribers[k]>> : k \in 1..Len(statusSubscribers) }
    /\ disconnected' = TRUE
    /\ last' = Operation("disconnect", FALSE, "none", "none", <<>>)
    /\ UNCHANGED <<reconnectAttempts, isConnecting, timers, unsubscribeFns, coreVars, csvVars>>

connectionVars == <<ws, reconnectAttempts, isConnecting, sockets, timers, disconnected>>

\* the client calls subscribe(callback) and keeps the function it returns
subscribe(callback) ==
    /\ subscribers' = SetAdd(subscribers, callback)
    /\ unsubscribeFns' = unsubscribeFns \cup {<<"price", callback>>}
    /\ released' = released \ {<<"price", callback>>}
    /\ last' = Operation("subscribe", FALSE, "none", "none", <<>>)
    /\ UNCHANGED <<errorSubscribers, statusSubscribers, connectionVars, coreVars, csvVars>>

subscribeToErrors(callback) ==
    /\ errorSubscribers' = SetAdd(errorSubscribers, callback)
    /\ unsubscribeFns' = unsubscribeFns \cup {<<"error", callback>>}
    /\ released' = released \ {<<"error", callback>>}
    /\ last' = Operation("subscribe", FALSE, "none", "none", <<>>)
    /\ UNCHANGED <<subscribers, statusSubscribers, connectionVars, coreVars, csvVars>>

subscribeToStatus(callback) ==
    /\ statusSubscribers' = SetAdd(statusSubscribers, callback)
    /\ unsubscribeFns' = unsubscribeFns \cup {<<"status", callback>>}
    /\ released' = released \ {<<"status", callback>>}
    /\ last' = Operation("subscribe", FALSE, "none", "none", <<>>)
    /\ UNCHANGED <<subscribers, errorSubscribers, connectionVars, coreVars, csvVars>>

\* the client calls a function that a subscribe call returned
CallUnsubscribe ==
    \E fn \in unsubscribeFns :
        /\ subscribers' = IF fn[1] = "price" THEN SetDelete(subscribers, fn[2]) ELSE subscribers
        /\ errorSubscribers' =
              IF fn[1] = "error" THEN SetDelete(errorSubscribers, fn[2]) ELSE errorSubscribers
        /\ statusSubscribers' =
              IF fn[1] = "status" THEN SetDelete(statusSubscribers, fn[2]) ELSE statusSubscribers
        /\ released' = released \cup {fn}
        /\ last' = Operation("unsubscribe", FALSE, "none", "none", <<>>)
        /\ UNCHANGED <<unsubscribeFns, connectionVars, coreVars, csvVars>>

\* the texts a server sends: JSON of a message with its type and the kind
\* of its data, and a text that is not JSON
Messages ==
    { [type |-> "price_update", data |-> d] : d \in {"quote", "object", "null", "string"} }
    \cup { [type |-> "error", data |-> "string"],
           [type |-> "connection_status", data |-> "string"],
           [type |-> "unknown", data |-> "string"],
           [type |-> "unparsable", data |-> "none"] }

\* onmessage with handleMessage (lines 295-303, 331-347): the notices given
\* for a message.  A quote is an object with a symbol; 'symbol' in null
\* throws, and so does JSON.parse of a text that is not JSON.
handleMessage(message) ==
    CASE message.type = "unparsable" ->
            <<notifyErrorSubscribers("Failed to parse message from server")>>
      [] message.type = "price_update" /\ message.data = "quote" ->
            <<notifySubscribers("quote")>>
      [] message.type = "price_update" /\ message.data = "null" ->
            <<notifyErrorSubscribers("Failed to parse message from server")>>
      [] message.type = "error" ->
            <<notifyErrorSubscribers(message.data)>>
      [] OTHER -> <<>>

\* a message arrives on an open socket
SocketMessage ==
    \E s \in 1..Len(sockets), message \in Messages :
        /\ sockets[s].readyState = "OPEN"
        /\ last' = Operation("message", FALSE, "none", message, handleMessage(message))
        /\ UNCHANGED <<connectionVars, subscriptionVars, coreVars, csvVars>>

\* the connection: the client connects and disconnects and subscribes a
\* callback to the errors; sockets open, fail and close; timers fire
NextSocket ==
    \/ ClientConnect
    \/ TimerFires
    \/ SocketOpens
    \/ SocketFails
    \/ SocketCloses
    \/ ClientDisconnect
    \/ subscribeToErrors("onError")

SpecSocket == InitIdle /\ [][NextSocket]_vars

\* reconnection: the client connects and subscribes a callback to the errors
\* and never disconnects; sockets open, fail and close; timers fire
NextReconnect ==
    \/ ClientConnect
    \/ TimerFires
    \/ SocketOpens
    \/ SocketFails
    \/ SocketCloses
    \/ subscribeToErrors("onError")

SpecReconnect == InitIdle /\ [][NextReconnect]_vars

\* the same with the event loop's guarantees: a timer that is due runs, and
\* a socket that is connecting is opened or fails
SpecReconnectFair ==
    /\ SpecReconnect
    /\ WF_vars(TimerFires)
    /\ WF_vars(SocketOpens \/ SocketFails)

\* the messages: the client connects and subscribes callbacks, one of which
\* throws, and calls the functions that subscribing returned; sockets open
\* and close, and messages arrive on the open ones
NextMessages ==
    \/ ClientConnect
    \/ SocketOpens
    \/ SocketCloses
    \/ \E callback \in {"onPrice", "onPriceThrows"} : subscribe(callback)
    \/ subscribeToErrors("onError")
    \/ subscribeToStatus("onStatus")
    \/ CallUnsubscribe
    \/ SocketMessage

SpecMessages == InitIdle /\ [][NextMessages]_vars

\* -- what the manager is said to do -------------------------------------

\* min(1000 * 2^(n-1), 30000) for n = 1, 2, ...
ClaimedDelay(n) ==
    CASE n = 1 -> 1000 [] n = 2 -> 2000 [] n = 3 -> 4000 [] n = 4 -> 8000
      [] n = 5 -> 16000 [] OTHER -> 30000

\* the pending timers after are those before and one more, of this delay
OneMoreTimer(before, after, delay) ==
    \E k \in 1..Len(after) : after[k] = delay /\ RemoveAt(after, k) = before

\* C21: a close event with wasClean false while reconnectAttempts < 5
\* schedules exactly one reconnect, the n-th with a delay of
\* min(1000 * 2^(n-1), 30000) ms; a clean close schedules none;
\* reconnectAttempts never exceeds 5 and is 0 when a connection has opened.
C21_ReconnectPolicy ==
    [][ /\ reconnectAttempts' <= 5
        /\ (last'.op = "fails" /\ reconnectAttempts < 5) =>
              /\ reconnectAttempts' = reconnectAttempts + 1
              /\ OneMoreTimer(timers, timers', ClaimedDelay(reconnectAttempts'))
        /\ last'.op = "closes" => (last'.wasClean /\ timers' = timers)
        /\ last'.op = "open" => reconnectAttempts' = 0 ]_vars

\* the fifth reconnect in a row has just been scheduled, 16 s ahead
C21_Witness ==
    /\ last.op = "fails"
    /\ reconnectAttempts = 5
    /\ last.scheduled = 16000
    /\ InSeq(16000, timers)

GaveUpNotice ==
    \E k \in 1..Len(last.calls) :
        /\ last.calls[k].kind = "error"
        /\ last.calls[k].data = "Failed to reconnect after maximum attempts"

\* a reconnect attempt is under way when the four before it, and the
\* connection they were to replace, have failed with no open in between
FifthAttemptUnderWay ==
    /\ reconnectAttempts = 5
    /\ \E s \in 1..Len(sockets) :
          sockets[s].byTimer /\ sockets[s].readyState = "CONNECTING"

Unresolved == { s \in 1..Len(sockets) : sockets[s].readyState \in {"CONNECTING", "OPEN"} }

\* C28: at most one socket is connecting or open at a time; connect()
\* resolves without creating a socket when the current socket is OPEN and
\* rejects while an attempt is in flight; isConnecting is true exactly
\* while the attempt of the current socket is unresolved.
C28_AsClaimed ==
    /\ Cardinality(Unresolved) <= 1
    /\ (last.op = "connect" /\ last.outcome = "resolved") => ReadyState = "OPEN"
    /\ (last.op = "connect" /\ last.outcome = "rejected") => ReadyState = "CONNECTING"
    /\ isConnecting <=> ReadyState = "CONNECTING"

\* the callbacks that the last operation called, each with its kind
Invoked ==
    UNION { { <<last.calls[k].kind, last.calls[k].to[j]>> : j \in 1..Len(last.calls[k].to) } :
              k \in 1..Len(last.calls) }

\* C29: when disconnect() has returned the three subscriber sets are empty,
\* no callback registered before it is called by a later event, and no
\* socket is made unless the client calls connect() again, also when a
\* reconnect was scheduled before the disconnect.
C29_AsClaimed ==
    /\ last.op = "disconnect" =>
          subscribers = <<>> /\ errorSubscribers = <<>> /\ statusSubscribers = <<>>
    /\ Invoked \cap released = {}
    /\ (disconnected /\ last.op = "timer") => last.outcome # "pending"

\* how often a callback is called by the notices of the last operation
TimesInvoked(kind, callback) ==
    Cardinality(UNION { { <<k, j>> : j \in { i \in 1..Len(last.calls[k].to) :
                                                /\ last.calls[k].kind = kind
                                                /\ last.calls[k].to[i] = callback } } :
                        k \in 1..Len(last.calls) })

\* C30: a price_update message whose data is an object with a symbol is
\* delivered exactly once to every callback in the price subscriber set,
\* also when a callback among them throws; a callback whose unsubscribe
\* function has been called is not called for later messages; and an
\* 'error' message reaches error subscribers only.
C30_Delivery ==
    last.op = "message" =>
        /\ (last.message.type = "price_update" /\ last.message.data = "quote") =>
              /\ \A k \in 1..Len(subscribers) : TimesInvoked("price", subscribers[k]) = 1
              /\ \A fn \in Invoked : fn[1] = "price" /\ InSeq(fn[2], subscribers)
        /\ Invoked \cap released = {}
        /\ last.message.type = "error" =>
              \A fn \in Invoked : fn[1] = "error" /\ InSeq(fn[2], errorSubscribers)

\* a quote has reached the callback that throws and the one subscribed after
\* it, and not the error callback whose unsubscribe function was called
C30_Witness ==
    /\ last.op = "message"
    /\ last.message = [type |-> "price_update", data |-> "quote"]
    /\ subscribers = <<"onPriceThrows", "onPrice">>
    /\ last.calls = <<[kind |-> "price", data |-> "quote", to |-> <<"onPriceThrows", "onPrice">>]>>
    /\ <<"error", "onError">> \in released

====
